---- MODULE Spec2Model ----
(***************************************************************************)
(* peakfinder: stem/treetop point matching (modules/merge.py), crown       *)
(* segmentation and stem/segment matching (pipeline.py), the orchestrator  *)
(* run_everything (pipeline.py), the older segment_trees                   *)
(* (modules/segmentation.py), the field-data functions (pipeline.py),      *)
(* local_to_utm and detect_tree_tops (modules/tree_tops.py), compute_ndsm *)
(* and wcs_download_dgm1 (ndsm_tools), and the two segmentation exports    *)
(* (app.py).                                                               *)
(*                                                                         *)
(* Numbers.  Projected coordinates, heights and distances are integers.    *)
(* A Python None is the empty tuple <<>> and a present value v is <<v>>,   *)
(* so that "is None" is an equality TLC can evaluate.  np.inf in the cost  *)
(* matrix is Inf (= <<>>), a finite cost d is <<d>>.  A distance is the    *)
(* square root in fixed point: ISqrt(DistScale^2 * squared distance).      *)
(***************************************************************************)
EXTENDS Integers, Sequences, FiniteSets, TLC

VARIABLES
    pc,              \* position of the modelled call
    stems_utm,       \* [(Parzelle, Nr, utm_x, utm_y), ...]
    treetops,        \* [(utm_x, utm_y, tree_height), ...]
    max_distance,    \* match_stems_to_treetops(max_distance=)
    radius,          \* process_unmatched_stems(radius=)
    matched_data,    \* what match_stems_to_treetops returned
    pixel_matches,   \* what process_unmatched_stems returned
    labels,          \* label grid, labels[row + 1][col + 1]
    treetop_coords,  \* peak pixels [(row, col), ...]
    ndsm,            \* height raster of the label grid's extent
    transform,       \* its affine transform (north-up): a, c, e, f
    results,         \* what segment_match_stems returned
    label_reads,     \* the (row, col) at which labels was indexed
    cfg,             \* RunConfig of the run
    ndsm_exists,     \* os.path.exists(ndsm_path)
    df,              \* rows of the final table
    csv_written,     \* rows written to output_csv_path, None before
    stats,           \* RunResult.stats
    seg_params,      \* arguments of segment_trees_arrays
    src_raster,      \* the raster behind ndsm_path: its cells and transform
    ws_window,       \* the rows and columns of the raster that were read
    ws_mask,         \* the watershed's mask: the cells it may label
    ws_out,          \* the watershed's output array while it floods
    corner_points,   \* [(Parzelle, Nr, utm_x, utm_y), ...] of the plot corners
    trees_local,     \* [(Parzelle, Nr, x, y, z), ...] in plot coordinates
    ground_lines,    \* [(Parzelle, lower_left, lower_right), ...]
    dsm,             \* the surface raster behind dsm_path
    dtm,             \* the ground raster behind dtm_aligned_path
    geojson_features, \* properties of the features of the GeoJSON export
    shp_records,     \* records of the shapefile export
    axis_labels,     \* wcs_download_dgm1(axis_labels=)
    include_scalesize, \* include_scalesize of the running call
    axes_idx,        \* position of "for axes in axis_labels"
    requests_log,    \* the requests sent so far, each with its response
    out_file,        \* what was written to out_path, None before
    perm_data,       \* matched_data listed in another order
    perm_matches     \* what process_unmatched_stems returned for it

pmVars == <<stems_utm, treetops, max_distance, radius, matched_data, pixel_matches>>

segVars == <<labels, treetop_coords, ndsm, transform, results, label_reads>>

runVars == <<cfg, ndsm_exists, df, csv_written, stats>>

wsVars == <<seg_params, src_raster, ws_window, ws_mask, ws_out>>

fdVars == <<corner_points, trees_local, ground_lines>>

ioVars == <<dsm, dtm>>

exVars == <<geojson_features, shp_records>>

netVars == <<axis_labels, include_scalesize, axes_idx, requests_log, out_file>>

permVars == <<perm_data, perm_matches>>

vars == <<pc, pmVars, segVars, runVars, wsVars, fdVars, ioVars, exVars, netVars, permVars>>

----------------------------------------------------------------------------
(* Bounds of the model *)

MaxStems == 3

MaxTreetops == 3

DistScale == 10

\* projected positions the stems are drawn from
StemPoints == {<<0, 0>>, <<1, 0>>, <<4, 0>>}

\* projected positions (pixels) the treetops are drawn from
TopPoints == {<<0, 0>>, <<1, 0>>, <<2, 0>>, <<0, 1>>, <<4, 0>>, <<5, 0>>, <<5, 1>>}

\* (Parzelle, Nr) of the i-th stem; unique per stem as in dbo.Objekte
StemIds == <<(<<2, 1001>>), (<<1, 1002>>), (<<1, 1001>>), (<<2, 1002>>)>>

\* smoothed_ndsm[row, col] of the raster the treetops were detected in
SmoothedHeight(p) == 11 + p[1] + 2 * p[2]

\* (max_distance, radius) of a run
MatchParams == {<<1, 2>>, <<2, 3>>}

----------------------------------------------------------------------------
(* Python values *)

None == <<>>

Some(v) == <<v>>

Inf == <<>>


RECURSIVE SortedSeq(_)
\* the elements of a finite set of integers in ascending order (np.where)
SortedSeq(S) ==
    IF S = {} THEN <<>>
    ELSE LET m == CHOOSE a \in S : \A b \in S : a <= b
         IN  <<m>> \o SortedSeq(S \ {m})

ISqrt(n) == CHOOSE r \in 0 .. n : r * r <= n /\ (r + 1) * (r + 1) > n

Dist2(x1, y1, x2, y2) == (x1 - x2) * (x1 - x2) + (y1 - y2) * (y1 - y2)

\* np.sqrt((stem_x - top_x) ** 2 + (stem_y - top_y) ** 2), fixed point
Dist(x1, y1, x2, y2) == ISqrt(DistScale * DistScale * Dist2(x1, y1, x2, y2))

\* dist <= max_distance, decided exactly on the squares
WithinDistance(x1, y1, x2, y2, d) == Dist2(x1, y1, x2, y2) <= d * d

----------------------------------------------------------------------------
(* modules/merge.py: match_stems_to_treetops *)

\* a limit applied to each axis instead of to the distance
EligiblePerAxis(stem, top, maxd) ==
    /\ (stem[3] - top[1]) * (stem[3] - top[1]) <= maxd * maxd
    /\ (stem[4] - top[2]) * (stem[4] - top[2]) <= maxd * maxd

\* "if dist <= max_distance"
Eligible(stem, top, maxd) == WithinDistance(stem[3], stem[4], top[1], top[2], maxd)

\* cost_matrix: np.inf, or the distance where it is <= max_distance
cost_matrix(stems, tops, maxd) ==
    [i \in 1 .. Len(stems) |->
        [j \in 1 .. Len(tops) |->
            IF Eligible(stems[i], tops[j], maxd)
            THEN Some(Dist(stems[i][3], stems[i][4], tops[j][1], tops[j][2]))
            ELSE Inf]]

\* np.any(cost_matrix != np.inf, axis=1)
valid_stem_indices(C, ns, nt) ==
    {i \in 1 .. ns : \E j \in 1 .. nt : C[i][j] # Inf}

\* np.any(cost_matrix != np.inf, axis=0)
valid_treetop_indices(C, ns, nt) ==
    {j \in 1 .. nt : \E i \in 1 .. ns : C[i][j] # Inf}

\* cost_matrix[np.ix_(valid_stem_indices, valid_treetop_indices)]
reduced_cost_matrix(C, rows, cols) ==
    [r \in 1 .. Len(rows) |-> [c \in 1 .. Len(cols) |-> C[rows[r]][cols[c]]]]

Injective(f) == \A a, b \in DOMAIN f : a # b => f[a] # f[b]

\* the pairings scipy's solver ranges over: min(nr, nc) pairs <<row, col>>,
\* no row and no column twice
LsaAssignments(nr, nc) ==
    IF nr <= nc
    THEN {{<<r, f[r]>> : r \in 1 .. nr} :
            f \in {g \in [1 .. nr -> 1 .. nc] : Injective(g)}}
    ELSE {{<<f[c], c>> : c \in 1 .. nc} :
            f \in {g \in [1 .. nc -> 1 .. nr] : Injective(g)}}

RECURSIVE LsaCost(_, _)
LsaCost(R, a) ==
    IF a = {} THEN 0
    ELSE LET p == CHOOSE q \in a : TRUE
         IN  R[p[1]][p[2]][1] + LsaCost(R, a \ {p})

LsaFeasible(R, nr, nc) ==
    {a \in LsaAssignments(nr, nc) : \A p \in a : R[p[1]][p[2]] # Inf}

\* a solver that stops at any pairing of finite cost
LsaAnyFeasible(R, nr, nc) == LsaFeasible(R, nr, nc)

\* a solver that pairs every row with its cheapest column
LsaRowMinima(R, nr, nc) ==
    LET best(r) == {c \in 1 .. nc :
                      /\ R[r][c] # Inf
                      /\ \A d \in 1 .. nc : R[r][d] # Inf => R[r][c][1] <= R[r][d][1]}
    IN  {a \in SUBSET ((1 .. nr) \X (1 .. nc)) :
            /\ \A r \in 1 .. nr : Cardinality({p \in a : p[1] = r}) = 1
            /\ \A p \in a : p[2] \in best(p[1])}

\* scipy.optimize.linear_sum_assignment: the pairings of least total cost
\* among those of finite cost; the empty set stands for its
\* ValueError("cost matrix is infeasible")
linear_sum_assignment(R, nr, nc) ==
    LET F == LsaFeasible(R, nr, nc)
    IN  {a \in F : \A b \in F : LsaCost(R, a) <= LsaCost(R, b)}

UnmatchedRecord(stem) == <<stem[1], stem[2], stem[3], stem[4], None, None, None>>

MatchedRecord(stem, top) ==
    <<stem[1], stem[2], stem[3], stem[4], Some(top[1]), Some(top[2]), Some(top[3])>>

\* the stems appended after the solved pairs: np.where(~valid_stem_indices)[0]
unmatched_stems_idx(valid, ns) == SortedSeq((1 .. ns) \ valid)

\* the early return: no row or column left, or nothing finite
NoMatchPossible(R, nr, nc) ==
    \/ nr * nc = 0
    \/ ~ \E r \in 1 .. nr, c \in 1 .. nc : R[r][c] # Inf

\* the list built from a solved pairing a: the solved pairs of finite cost
\* in row order, then the stems of the all-inf rows
MatchedDataOf(stems, tops, C, rows, cols, a) ==
    LET R     == reduced_cost_matrix(C, rows, cols)
        rs    == SortedSeq({p[1] : p \in {q \in a : R[q[1]][q[2]] # Inf}})
        colOf(r) == (CHOOSE p \in a : p[1] = r)[2]
        um    == unmatched_stems_idx(valid_stem_indices(C, Len(stems), Len(tops)), Len(stems))
    IN  [k \in 1 .. Len(rs) |-> MatchedRecord(stems[rows[rs[k]]], tops[cols[colOf(rs[k])]])]
        \o [k \in 1 .. Len(um) |-> UnmatchedRecord(stems[um[k]])]

\* every list match_stems_to_treetops can return; {} when it raises
match_stems_to_treetops(stems, tops, maxd) ==
    LET C    == cost_matrix(stems, tops, maxd)
        rows == SortedSeq(valid_stem_indices(C, Len(stems), Len(tops)))
        cols == SortedSeq(valid_treetop_indices(C, Len(stems), Len(tops)))
        R    == reduced_cost_matrix(C, rows, cols)
    IN  IF NoMatchPossible(R, Len(rows), Len(cols))
        THEN {[k \in 1 .. Len(stems) |-> UnmatchedRecord(stems[k])]}
        ELSE {MatchedDataOf(stems, tops, C, rows, cols, a) :
                a \in linear_sum_assignment(R, Len(rows), Len(cols))}

----------------------------------------------------------------------------
(* modules/merge.py: process_unmatched_stems *)

\* {(stem[4], stem[5]) for stem in matched_data if both are not None}
matched_treetops(data) ==
    {<<data[i][5][1], data[i][6][1]>> :
        i \in {k \in 1 .. Len(data) : data[k][5] # None /\ data[k][6] # None}}

IsUnmatched(rec) == rec[5] = None

\* treetops within the radius of the stem and not yet used
nearby_treetops(rec, tops, r, used) ==
    SelectSeq(tops, LAMBDA t :
        /\ WithinDistance(rec[3], rec[4], t[1], t[2], r)
        /\ <<t[1], t[2]>> \notin used)

\* a nearest-candidate rescue: any candidate at all is taken
IsIsolatedOrFirst(nearby) == Len(nearby) >= 1

\* "if len(nearby_treetops) == 1"
IsIsolated(nearby) == Len(nearby) = 1

\* a replacement keyed on the plot alone
IsSameParzelle(rec, u) == rec[1] = u[1]

\* "if stem == unmatched_stem" of the update
IsSameRecord(rec, u) == rec = u

RECURSIVE RescueLoopFirstOnly(_, _, _, _, _)
\* a loop that leaves after its first rescue
RescueLoopFirstOnly(unmatched, tops, r, used, updated) ==
    IF unmatched = <<>> THEN updated
    ELSE LET u      == Head(unmatched)
             nearby == nearby_treetops(u, tops, r, used)
         IN  IF Len(nearby) = 1
             THEN [i \in 1 .. Len(updated) |->
                     IF updated[i] = u
                     THEN <<u[1], u[2], u[3], u[4],
                            Some(nearby[1][1]), Some(nearby[1][2]), Some(nearby[1][3])>>
                     ELSE updated[i]]
             ELSE RescueLoopFirstOnly(Tail(unmatched), tops, r, used, updated)

RECURSIVE RescueLoop(_, _, _, _, _)
\* the loop over unmatched_stems: used is matched_treetops, updated is
\* updated_data
RescueLoop(unmatched, tops, r, used, updated) ==
    IF unmatched = <<>> THEN updated
    ELSE LET u      == Head(unmatched)
             nearby == nearby_treetops(u, tops, r, used)
         IN  IF IsIsolated(nearby)
             THEN RescueLoop(Tail(unmatched), tops, r,
                     used \cup {<<nearby[1][1], nearby[1][2]>>},
                     [i \in 1 .. Len(updated) |->
                         IF IsSameRecord(updated[i], u)
                         THEN <<u[1], u[2], u[3], u[4],
                                Some(nearby[1][1]), Some(nearby[1][2]), Some(nearby[1][3])>>
                         ELSE updated[i]])
             ELSE RescueLoop(Tail(unmatched), tops, r, used, updated)

process_unmatched_stems(data, tops, r) ==
    RescueLoop(SelectSeq(data, IsUnmatched), tops, r, matched_treetops(data), data)

----------------------------------------------------------------------------
(* The point matcher as run_everything calls it: match_stems_to_treetops,  *)
(* then process_unmatched_stems on its result.                             *)

RECURSIVE SeqsOver(_, _)
\* the sequences of length n over S
SeqsOver(S, n) ==
    IF n = 0 THEN {<<>>}
    ELSE {Append(s, e) : s \in SeqsOver(S, n - 1), e \in S}

\* stems: each at a drawn position, with the ids of StemIds
StemLists ==
    UNION {{[i \in 1 .. n |-> <<StemIds[i][1], StemIds[i][2], ps[i][1], ps[i][2]>>] :
                ps \in SeqsOver(StemPoints, n)} : n \in 0 .. MaxStems}

\* p comes before q in the row-major order of a north-up raster (np.where)
RowMajorBefore(p, q) == p[2] > q[2] \/ (p[2] = q[2] /\ p[1] <= q[1])

RECURSIVE SortRowMajor(_)
SortRowMajor(S) ==
    IF S = {} THEN <<>>
    ELSE LET m == CHOOSE a \in S : \A b \in S : RowMajorBefore(a, b)
         IN  <<m>> \o SortRowMajor(S \ {m})

\* treetops as detect_tree_tops lists them: distinct pixels in row-major
\* order, each with the smoothed height at its pixel
TreetopLists ==
    {[i \in 1 .. Cardinality(P) |->
        <<SortRowMajor(P)[i][1], SortRowMajor(P)[i][2], SmoothedHeight(SortRowMajor(P)[i])>>] :
        P \in {Q \in SUBSET TopPoints : Cardinality(Q) <= MaxTreetops}}

\* the exports, the download and the reordered rescue are not stepped
\* through in this run
AdaptersIdle ==
    /\ geojson_features = <<>>
    /\ shp_records = <<>>
    /\ axis_labels = <<>>
    /\ include_scalesize = FALSE
    /\ axes_idx = 0
    /\ requests_log = <<>>
    /\ out_file = <<>>
    /\ perm_data = <<>>
    /\ perm_matches = <<>>

\* compute_ndsm is not stepped through in this run
IoIdle ==
    /\ dsm = <<>>
    /\ dtm = <<>>

\* the field data are not stepped through in this run
FdIdle ==
    /\ corner_points = <<>>
    /\ trees_local = <<>>
    /\ ground_lines = <<>>

\* segment_trees_arrays is not stepped through in this run
WsIdle ==
    /\ seg_params = <<>>
    /\ src_raster = <<>>
    /\ ws_window = <<>>
    /\ ws_mask = {}
    /\ ws_out = <<>>

\* the call is made on its own, outside run_everything
RunIdle ==
    /\ cfg = <<>>
    /\ ndsm_exists = TRUE
    /\ df = <<>>
    /\ csv_written = <<>>
    /\ stats = <<>>
    /\ WsIdle
    /\ FdIdle
    /\ IoIdle

\* no segmentation in this run
SegIdle ==
    /\ labels = <<>>
    /\ treetop_coords = <<>>
    /\ ndsm = <<>>
    /\ transform = <<>>
    /\ results = <<>>
    /\ label_reads = {}

InitPoint ==
    /\ pc = "match"
    /\ stems_utm \in StemLists
    /\ treetops \in TreetopLists
    /\ \E mp \in MatchParams : max_distance = mp[1] /\ radius = mp[2]
    /\ matched_data = <<>>
    /\ pixel_matches = <<>>
    /\ SegIdle
    /\ RunIdle
    /\ AdaptersIdle

\* pixel_matches = match_stems_to_treetops(stems_utm, treetops, max_distance)
MatchStemsToTreetops ==
    /\ pc = "match"
    /\ LET outs == match_stems_to_treetops(stems_utm, treetops, max_distance)
       IN  IF outs = {}
           THEN pc' = "ValueError" /\ UNCHANGED matched_data
           ELSE pc' = "rescue" /\ matched_data' \in outs
    /\ UNCHANGED <<stems_utm, treetops, max_distance, radius, pixel_matches>>
    /\ UNCHANGED <<segVars, runVars, wsVars, fdVars, ioVars, exVars, netVars, permVars>>

\* pixel_matches = process_unmatched_stems(pixel_matches, treetops, radius)
ProcessUnmatchedStems ==
    /\ pc = "rescue"
    /\ pixel_matches' = process_unmatched_stems(matched_data, treetops, radius)
    /\ pc' = "rescued"
    /\ UNCHANGED <<stems_utm, treetops, max_distance, radius, matched_data>>
    /\ UNCHANGED <<segVars, runVars, wsVars, fdVars, ioVars, exVars, netVars, permVars>>

NextPoint == MatchStemsToTreetops \/ ProcessUnmatchedStems

SpecPoint == InitPoint /\ [][NextPoint]_vars

----------------------------------------------------------------------------
(* Claims on the point matcher (SpecPoint) *)

StemOf(rec) == <<rec[1], rec[2], rec[3], rec[4]>>

IsMatched(rec) == rec[5] # None

\* the treetops (by index) at the position a matched record names
TopsAt(rec) ==
    {j \in 1 .. Len(treetops) :
        rec[5] = Some(treetops[j][1]) /\ rec[6] = Some(treetops[j][2])}

\* C2: the list match_stems_to_treetops returns holds exactly one record
\* for each input stem, matched or with null treetop fields.
C2_OneRecordPerStem ==
    pc = "rescue" =>
        /\ Len(matched_data) = Len(stems_utm)
        /\ \A i \in 1 .. Len(stems_utm) :
            Cardinality({k \in 1 .. Len(matched_data) :
                            StemOf(matched_data[k]) = stems_utm[i]}) = 1

\* C6: every matched record of the assignment step pairs a stem with a
\* treetop of the list that lies within max_distance of it.
C6_MatchWithinMaxDistance ==
    pc = "rescue" =>
        \A k \in 1 .. Len(matched_data) :
            IsMatched(matched_data[k]) =>
                /\ TopsAt(matched_data[k]) # {}
                /\ matched_data[k][7] \in {Some(treetops[j][3]) : j \in TopsAt(matched_data[k])}
                /\ Dist2(matched_data[k][3], matched_data[k][4],
                         matched_data[k][5][1], matched_data[k][6][1])
                     <= max_distance * max_distance

\* a stem matched to a treetop at exactly max_distance while a treetop
\* farther than max_distance from it is in the list
C6_Witness ==
    /\ pc = "rescue"
    /\ \E k \in 1 .. Len(matched_data) :
        /\ IsMatched(matched_data[k])
        /\ Dist2(matched_data[k][3], matched_data[k][4],
                 matched_data[k][5][1], matched_data[k][6][1])
             = max_distance * max_distance
        /\ \E j \in 1 .. Len(treetops) :
            Dist2(matched_data[k][3], matched_data[k][4], treetops[j][1], treetops[j][2])
              > max_distance * max_distance

\* treetops (by index) within the rescue radius of record k's stem whose
\* position is not in the set used
Candidates(k, used) ==
    {j \in 1 .. Len(treetops) :
        /\ Dist2(matched_data[k][3], matched_data[k][4], treetops[j][1], treetops[j][2])
             <= radius * radius
        /\ <<treetops[j][1], treetops[j][2]>> \notin used}

UsedByAssignment ==
    {<<matched_data[k][5][1], matched_data[k][6][1]>> :
        k \in {n \in 1 .. Len(matched_data) : IsMatched(matched_data[n])}}

\* positions handed out by the rescue pass to records listed before k
UsedByEarlierRescue(k) ==
    {<<pixel_matches[n][5][1], pixel_matches[n][6][1]>> :
        n \in {m \in 1 .. k - 1 :
                ~ IsMatched(matched_data[m]) /\ IsMatched(pixel_matches[m])}}

\* C7 as stated: an unmatched stem receives a treetop exactly when one
\* treetop not used by an assignment-step match lies within the radius.
C7_RescueIffOneUnusedByAssignment ==
    pc = "rescued" =>
        \A k \in 1 .. Len(matched_data) :
            ~ IsMatched(matched_data[k]) =>
                (IsMatched(pixel_matches[k])
                    <=> Cardinality(Candidates(k, UsedByAssignment)) = 1)

\* C7 amended: an unmatched stem receives a treetop exactly when, at its
\* turn in list order, one treetop lies within the radius that is used
\* neither by an assignment-step match nor by an earlier rescue of the same
\* pass; it then receives that treetop, and otherwise stays unmatched.
C7_RescueIffOneUnusedSoFar ==
    pc = "rescued" =>
        \A k \in 1 .. Len(matched_data) :
            ~ IsMatched(matched_data[k]) =>
                LET cand == Candidates(k, UsedByAssignment \cup UsedByEarlierRescue(k))
                IN  /\ IsMatched(pixel_matches[k]) <=> Cardinality(cand) = 1
                    /\ IsMatched(pixel_matches[k]) =>
                        \A j \in cand :
                            pixel_matches[k] =
                                <<matched_data[k][1], matched_data[k][2],
                                  matched_data[k][3], matched_data[k][4],
                                  Some(treetops[j][1]), Some(treetops[j][2]),
                                  Some(treetops[j][3])>>

\* one stem is rescued, and a later one whose single candidate that was
\* stays unmatched; a third case: a stem with two candidates stays unmatched
C7_Witness ==
    /\ pc = "rescued"
    /\ \E k, n \in 1 .. Len(matched_data) :
        /\ k < n
        /\ ~ IsMatched(matched_data[k]) /\ IsMatched(pixel_matches[k])
        /\ ~ IsMatched(matched_data[n]) /\ ~ IsMatched(pixel_matches[n])
        /\ Cardinality(Candidates(n, UsedByAssignment)) = 1
        /\ Candidates(n, UsedByAssignment) = Candidates(k, UsedByAssignment)

\* C8: process_unmatched_stems keeps the number and order of the records
\* and every stem's identity and position; a matched record is returned
\* unchanged, and only null treetop fields are ever replaced.
C8_RescueIsAdditive ==
    pc = "rescued" =>
        /\ Len(pixel_matches) = Len(matched_data)
        /\ \A k \in 1 .. Len(matched_data) :
            /\ StemOf(pixel_matches[k]) = StemOf(matched_data[k])
            /\ IsMatched(matched_data[k]) => pixel_matches[k] = matched_data[k]

\* a record matched by the assignment step next to one the rescue filled
C8_Witness ==
    /\ pc = "rescued"
    /\ \E k, n \in 1 .. Len(matched_data) :
        /\ IsMatched(matched_data[k]) /\ pixel_matches[k] = matched_data[k]
        /\ ~ IsMatched(matched_data[n]) /\ IsMatched(pixel_matches[n])
        /\ matched_data[k][1] = matched_data[n][1]

----------------------------------------------------------------------------
(* pipeline.py: segment_match_stems *)

\* grid.shape[0], grid.shape[1]
Height(grid) == Len(grid)

Width(grid) == IF Len(grid) = 0 THEN 0 ELSE Len(grid[1])

\* numpy's index along an axis of length n: a negative index counts from
\* the end; None stands for IndexError
NumpyIndex(i, n) ==
    IF 0 <= i /\ i < n THEN Some(i)
    ELSE IF 0 - n <= i /\ i < 0 THEN Some(i + n)
    ELSE None

\* grid[r, c]
GridAt(grid, r, c) ==
    LET ri == NumpyIndex(r, Height(grid))
        ci == NumpyIndex(c, Width(grid))
    IN  IF ri = None \/ ci = None THEN None
        ELSE Some(grid[ri[1] + 1][ci[1] + 1])

\* rasterio.transform.rowcol(transform, x, y): floor of the inverse map
rowcol(t, x, y) == <<(t.f - y) \div (0 - t.e), (x - t.c) \div t.a>>

\* rasterio.transform.xy(transform, row, col, offset="center")
xy_center(t, row, col) ==
    <<t.c + (t.a * (2 * col + 1)) \div 2, t.f + (t.e * (2 * row + 1)) \div 2>>

\* the guard without its lower limits
InBoundsUpperOnly(rr, cc, grid) == rr < Height(grid) /\ cc < Width(grid)

\* "if 0 <= rr < labels.shape[0] and 0 <= cc < labels.shape[1]"
InBounds(rr, cc, grid) ==
    /\ 0 <= rr /\ rr < Height(grid)
    /\ 0 <= cc /\ cc < Width(grid)

StemPixel(t, stem) == rowcol(t, stem[3], stem[4])

\* the bucket a stem goes to: Some(sid) for seg_to_stems[sid], Some(0) for
\* no_segment; None when the label lookup raises
StemSid(lab, t, stem) ==
    LET px == StemPixel(t, stem)
    IN  IF InBounds(px[1], px[2], lab)
        THEN LET sid == GridAt(lab, px[1], px[2])
             IN  IF sid = None THEN None
                 ELSE IF sid[1] > 0 THEN sid ELSE Some(0)
        ELSE Some(0)

\* seg_to_tops.get(sid, [])
seg_to_tops(lab, peaks, sid) ==
    SelectSeq(peaks, LAMBDA q : GridAt(lab, q[1], q[2]) = Some(sid))

\* seg_to_stems[sid]
seg_to_stems(lab, t, stems, sid) ==
    SelectSeq(stems, LAMBDA st : StemSid(lab, t, st) = Some(sid))

\* no_segment
no_segment(lab, t, stems) ==
    SelectSeq(stems, LAMBDA st : StemSid(lab, t, st) = Some(0))

RECURSIVE KeysInOrder(_, _, _, _)
\* the keys of seg_to_stems in insertion order
KeysInOrder(lab, t, stems, seen) ==
    IF stems = <<>> THEN <<>>
    ELSE LET sid == StemSid(lab, t, Head(stems))
         IN  IF sid = None \/ sid = Some(0) \/ sid[1] \in seen
             THEN KeysInOrder(lab, t, Tail(stems), seen)
             ELSE <<sid[1]>> \o KeysInOrder(lab, t, Tail(stems), seen \cup {sid[1]})

\* a single stem with at least one peak
IsOneStemSomeTop(stems, tops) == Len(stems) = 1 /\ Len(tops) >= 1

\* "if len(stems) == 1 and len(tops) == 1"
IsOneToOne(stems, tops) == Len(stems) = 1 /\ Len(tops) = 1

\* the cells (row, col) of a region
RegionCells(lab, sid) ==
    {<<r, c>> \in (0 .. Height(lab) - 1) \X (0 .. Width(lab) - 1) :
        lab[r + 1][c + 1] = sid}

\* the apex taken at the peak pixel
ApexAtPeak(lab, nd, sid, tops) == tops[1]

\* np.unravel_index(np.argmax(np.where(labels == sid, ndsm, -inf))): the
\* first cell of the region, in row-major order, of greatest height
apex_pixel(lab, nd, sid, tops) ==
    LET cells == RegionCells(lab, sid)
        best  == {q \in cells : \A o \in cells : nd[o[1] + 1][o[2] + 1] <= nd[q[1] + 1][q[2] + 1]}
    IN  CHOOSE q \in best :
            \A o \in best : q[1] < o[1] \/ (q[1] = o[1] /\ q[2] <= o[2])

SegRecord(stem, tx, ty, h, m) ==
    [Parzelle |-> stem[1], Nr |-> stem[2],
     Stem_UTM_X |-> stem[3], Stem_UTM_Y |-> stem[4],
     Treetop_UTM_X |-> tx, Treetop_UTM_Y |-> ty,
     UAV_Tree_Height_segment |-> h, match |-> m]

\* only the first stem of an ambiguous bucket reported
BucketRecordsFirstOnly(lab, nd, t, sid, stems, tops) ==
    <<SegRecord(stems[1], None, None, None, 0)>>

\* the records one bucket adds to results
bucket_records(lab, nd, t, sid, stems, tops) ==
    IF IsOneToOne(stems, tops)
    THEN LET m   == apex_pixel(lab, nd, sid, tops)
             top == xy_center(t, m[1], m[2])
         IN  <<SegRecord(stems[1], Some(top[1]), Some(top[2]),
                         Some(nd[m[1] + 1][m[2] + 1]), 1)>>
    ELSE [k \in 1 .. Len(stems) |-> SegRecord(stems[k], None, None, None, 0)]

RECURSIVE BucketsRecords(_, _, _, _, _, _)
\* "for sid, stems in seg_to_stems.items()"
BucketsRecords(lab, peaks, stems, nd, t, keys) ==
    IF keys = <<>> THEN <<>>
    ELSE bucket_records(lab, nd, t, Head(keys),
                        seg_to_stems(lab, t, stems, Head(keys)),
                        seg_to_tops(lab, peaks, Head(keys)))
         \o BucketsRecords(lab, peaks, stems, nd, t, Tail(keys))

\* the records of the stems without a segment, match = 2
no_segment_records(lab, t, stems) ==
    LET ns == no_segment(lab, t, stems)
    IN  [k \in 1 .. Len(ns) |-> SegRecord(ns[k], None, None, None, 2)]

\* results of segment_match_stems
segment_match_stems(lab, peaks, stems, nd, t) ==
    BucketsRecords(lab, peaks, stems, nd, t, KeysInOrder(lab, t, stems, {}))
    \o no_segment_records(lab, t, stems)

\* the indices at which labels is read: every peak, and every stem pixel
\* that passed the guard
SegLabelReads(lab, peaks, stems, t) ==
    {peaks[i] : i \in 1 .. Len(peaks)}
    \cup {StemPixel(t, stems[i]) :
            i \in {k \in 1 .. Len(stems) :
                    InBounds(StemPixel(t, stems[k])[1], StemPixel(t, stems[k])[2], lab)}}

SegRaises(lab, peaks, stems, t) ==
    \E q \in SegLabelReads(lab, peaks, stems, t) : GridAt(lab, q[1], q[2]) = None

----------------------------------------------------------------------------
(* segment_match_stems on drawn label grids, peaks, rasters and stems *)

MaxSegStems == 2

MaxPeaks == 3

\* label grids as relabel_sequential leaves them (labels 1..N, 0 background)
LabelGrids ==
    {<<(<<0, 0>>), (<<0, 0>>)>>, <<(<<1, 1>>), (<<1, 1>>)>>,
     <<(<<1, 1>>), (<<2, 2>>)>>, <<(<<1, 2>>), (<<1, 2>>)>>,
     <<(<<1, 0>>), (<<0, 2>>)>>, <<(<<0, 1>>), (<<1, 1>>)>>,
     <<(<<2, 1>>), (<<0, 1>>)>>, <<(<<1, 1>>), (<<1, 0>>)>>}

\* height rasters of the same extent
NdsmGrids ==
    {<<(<<3, 7>>), (<<5, 4>>)>>, <<(<<6, 6>>), (<<6, 6>>)>>,
     <<(<<2, 4>>), (<<9, 9>>)>>}

SegPixels == (0 .. 1) \X (0 .. 1)

RECURSIVE SortPixels(_)
SortPixels(S) ==
    IF S = {} THEN <<>>
    ELSE LET m == CHOOSE a \in S :
                    \A b \in S : a[1] < b[1] \/ (a[1] = b[1] /\ a[2] <= b[2])
         IN  <<m>> \o SortPixels(S \ {m})

\* peak arrays: distinct pixels of the grid
PeakLists ==
    {SortPixels(Q) : Q \in {R \in SUBSET SegPixels : Cardinality(R) <= MaxPeaks}}

\* north-up transforms: x = c + a * col, y = f + e * row
SegTransforms ==
    {[a |-> 2, e |-> -2, c |-> 0, f |-> 4], [a |-> 4, e |-> -4, c |-> -2, f |-> 6]}

\* projected stem positions, inside and outside the raster
SegStemPoints == {<<1, 3>>, <<3, 3>>, <<2, 2>>, <<-1, 3>>, <<1, -1>>}

SegStemLists ==
    UNION {{[i \in 1 .. n |-> <<StemIds[i][1], StemIds[i][2], ps[i][1], ps[i][2]>>] :
                ps \in SeqsOver(SegStemPoints, n)} : n \in 0 .. MaxSegStems}

\* no point matching in this run
PointIdle ==
    /\ treetops = <<>>
    /\ max_distance = 0
    /\ radius = 0
    /\ matched_data = <<>>
    /\ pixel_matches = <<>>

InitSeg ==
    /\ pc = "segmatch"
    /\ stems_utm \in SegStemLists
    /\ labels \in LabelGrids
    /\ ndsm \in NdsmGrids
    /\ treetop_coords \in PeakLists
    /\ transform \in SegTransforms
    /\ results = <<>>
    /\ label_reads = {}
    /\ PointIdle
    /\ RunIdle
    /\ AdaptersIdle

\* results, fig = segment_match_stems(labels, treetop_coords, stems_utm, ndsm, transform)
SegmentMatchStems ==
    /\ pc = "segmatch"
    /\ label_reads' = SegLabelReads(labels, treetop_coords, stems_utm, transform)
    /\ IF SegRaises(labels, treetop_coords, stems_utm, transform)
       THEN pc' = "IndexError" /\ UNCHANGED results
       ELSE /\ pc' = "segdone"
            /\ results' = segment_match_stems(labels, treetop_coords, stems_utm, ndsm, transform)
    /\ UNCHANGED <<labels, treetop_coords, ndsm, transform>>
    /\ UNCHANGED <<pmVars, runVars, wsVars, fdVars, ioVars, exVars, netVars, permVars>>

NextSeg == SegmentMatchStems

SpecSeg == InitSeg /\ [][NextSeg]_vars

----------------------------------------------------------------------------
(* Claims on segment_match_stems (SpecSeg) *)

RecStem(rec) == <<rec.Parzelle, rec.Nr, rec.Stem_UTM_X, rec.Stem_UTM_Y>>

\* the pixel (row, col) under a projected position
PixelUnder(x, y) ==
    <<(transform.f - y) \div (0 - transform.e), (x - transform.c) \div transform.a>>

InsideGrid(q) ==
    /\ q[1] \in 0 .. Len(labels) - 1
    /\ q[2] \in 0 .. Len(labels[1]) - 1

\* the label under a projected position, -1 outside the grid
LabelUnder(x, y) ==
    IF InsideGrid(PixelUnder(x, y))
    THEN labels[PixelUnder(x, y)[1] + 1][PixelUnder(x, y)[2] + 1]
    ELSE -1

StemsOn(L) ==
    {i \in 1 .. Len(stems_utm) : LabelUnder(stems_utm[i][3], stems_utm[i][4]) = L}

PeaksOn(L) ==
    {i \in 1 .. Len(treetop_coords) :
        labels[treetop_coords[i][1] + 1][treetop_coords[i][2] + 1] = L}

CellsOf(L) ==
    {q \in (0 .. Len(labels) - 1) \X (0 .. Len(labels[1]) - 1) : labels[q[1] + 1][q[2] + 1] = L}

NullTop(rec) ==
    /\ rec.Treetop_UTM_X = None
    /\ rec.Treetop_UTM_Y = None
    /\ rec.UAV_Tree_Height_segment = None

\* C1: segment_match_stems returns exactly one record per input stem, with
\* the stem's plot id, stem id and position, and a match value in {0, 1, 2}.
C1_OneRecordPerStem ==
    pc = "segdone" =>
        /\ Len(results) = Len(stems_utm)
        /\ \A i \in 1 .. Len(stems_utm) :
            Cardinality({k \in 1 .. Len(results) : RecStem(results[k]) = stems_utm[i]}) = 1
        /\ \A k \in 1 .. Len(results) : results[k].match \in {0, 1, 2}

\* two stems, the first without a region and the second in an ambiguous
\* one: both are reported, in the other order
C1_Witness ==
    /\ pc = "segdone"
    /\ Len(stems_utm) = 2
    /\ Len(results) = 2
    /\ RecStem(results[1]) = stems_utm[2] /\ results[1].match = 0
    /\ RecStem(results[2]) = stems_utm[1] /\ results[2].match = 2

\* C3: a stem on a positive label L is MATCHED exactly when L holds one
\* stem and one peak; otherwise it is UNMATCHED with no treetop chosen.
C3_MatchedIffOneStemOnePeak ==
    pc = "segdone" =>
        \A k \in 1 .. Len(results) :
            LET L == LabelUnder(results[k].Stem_UTM_X, results[k].Stem_UTM_Y)
            IN  L > 0 =>
                    /\ results[k].match = 1
                        <=> (Cardinality(StemsOn(L)) = 1 /\ Cardinality(PeaksOn(L)) = 1)
                    /\ results[k].match # 1 => (results[k].match = 0 /\ NullTop(results[k]))

\* a matched stem beside a stem alone on a label that holds two peaks
C3_Witness ==
    /\ pc = "segdone"
    /\ \E k, n \in 1 .. Len(results) :
        /\ results[k].match = 1
        /\ results[n].match = 0
        /\ LET L == LabelUnder(results[n].Stem_UTM_X, results[n].Stem_UTM_Y)
           IN  Cardinality(StemsOn(L)) = 1 /\ Cardinality(PeaksOn(L)) = 2

\* C4: a MATCHED record's height is the greatest raster value over the cells
\* of the stem's label, and its treetop position is the centre of a cell of
\* that region with that value.
C4_HeightIsRegionMax ==
    pc = "segdone" =>
        \A k \in 1 .. Len(results) :
            results[k].match = 1 =>
                LET L == LabelUnder(results[k].Stem_UTM_X, results[k].Stem_UTM_Y)
                IN  /\ \A q \in CellsOf(L) :
                            ndsm[q[1] + 1][q[2] + 1] <= results[k].UAV_Tree_Height_segment[1]
                    /\ \E q \in CellsOf(L) :
                        /\ ndsm[q[1] + 1][q[2] + 1] = results[k].UAV_Tree_Height_segment[1]
                        /\ 2 * results[k].Treetop_UTM_X[1]
                             = 2 * transform.c + transform.a * (2 * q[2] + 1)
                        /\ 2 * results[k].Treetop_UTM_Y[1]
                             = 2 * transform.f + transform.e * (2 * q[1] + 1)

\* a matched region whose peak pixel is lower than the region's maximum
C4_Witness ==
    /\ pc = "segdone"
    /\ \E k \in 1 .. Len(results) :
        /\ results[k].match = 1
        /\ \E i \in PeaksOn(LabelUnder(results[k].Stem_UTM_X, results[k].Stem_UTM_Y)) :
            ndsm[treetop_coords[i][1] + 1][treetop_coords[i][2] + 1]
                < results[k].UAV_Tree_Height_segment[1]

\* C5: a stem is NO_REGION exactly when its pixel is outside the label grid
\* or on label 0; such a record has null treetop and height fields; labels
\* is never indexed outside the grid and no error is raised.
C5_NoRegionIffOutsideOrBackground ==
    /\ pc # "IndexError"
    /\ \A q \in label_reads : InsideGrid(q)
    /\ pc = "segdone" =>
        \A k \in 1 .. Len(results) :
            /\ results[k].match = 2
                <=> LabelUnder(results[k].Stem_UTM_X, results[k].Stem_UTM_Y) \in {-1, 0}
            /\ results[k].match = 2 => NullTop(results[k])

\* one stem left of the raster (negative column) and one on label 0
C5_Witness ==
    /\ pc = "segdone"
    /\ \E k, n \in 1 .. Len(results) :
        /\ results[k].match = 2 /\ PixelUnder(results[k].Stem_UTM_X, results[k].Stem_UTM_Y)[2] < 0
        /\ results[n].match = 2
        /\ LabelUnder(results[n].Stem_UTM_X, results[n].Stem_UTM_Y) = 0

----------------------------------------------------------------------------
(* pipeline.py: run_everything *)

\* the configurations of a run: compute_ndsm, whether LDBV credentials are
\* set (cfg or environment), use_segmentation, whether output_csv_path is set
RunConfigs ==
    [compute_ndsm : BOOLEAN, has_credentials : BOOLEAN,
     use_segmentation : BOOLEAN, has_csv_path : BOOLEAN]

\* treetop pixels of the run's raster, as transform * (col, row)
RunTopPoints == {<<0, 4>>, <<2, 4>>, <<2, 2>>}

RunTreetopLists ==
    {[i \in 1 .. Cardinality(P) |->
        <<SortRowMajor(P)[i][1], SortRowMajor(P)[i][2], SmoothedHeight(SortRowMajor(P)[i])>>] :
        P \in {Q \in SUBSET RunTopPoints : Cardinality(Q) <= MaxTreetops}}

\* what segment_trees_arrays hands to segment_match_stems in a run
RunLabelGrids ==
    {<<(<<1, 1>>), (<<2, 2>>)>>, <<(<<1, 0>>), (<<0, 2>>)>>, <<(<<0, 0>>), (<<0, 0>>)>>}

RunPeakLists == {<<>>, <<(<<0, 0>>)>>, <<(<<0, 0>>), (<<1, 1>>)>>, <<(<<0, 0>>), (<<0, 1>>), (<<1, 0>>)>>}

RunNdsm == <<(<<3, 7>>), (<<5, 4>>)>>

RunTransform == [a |-> 2, e |-> -2, c |-> 0, f |-> 4]

InitRun ==
    /\ pc = "start"
    /\ cfg \in RunConfigs
    /\ ndsm_exists \in BOOLEAN
    /\ stems_utm = <<>>
    /\ PointIdle
    /\ SegIdle
    /\ df = <<>>
    /\ csv_written = None
    /\ stats = <<>>
    /\ WsIdle
    /\ FdIdle
    /\ IoIdle
    /\ AdaptersIdle

\* 1) nDSM: the credentials check, ndsm_run_pipeline, the existence check
PrepareNdsm ==
    /\ pc = "start"
    /\ IF cfg.compute_ndsm
       THEN IF ~ cfg.has_credentials
            THEN pc' = "RuntimeError" /\ UNCHANGED ndsm_exists
            ELSE \/ pc' = "NdsmPipelineError" /\ UNCHANGED ndsm_exists
                 \/ pc' = "treetops" /\ ndsm_exists' = TRUE
       ELSE /\ pc' = IF ndsm_exists THEN "treetops" ELSE "FileNotFoundError"
            /\ UNCHANGED ndsm_exists
    /\ UNCHANGED <<pmVars, segVars, cfg, df, csv_written, stats, wsVars, fdVars, ioVars, exVars, netVars, permVars>>

\* 2) treetops = detect_tree_tops(ndsm_path, ...); np.min over the cells
\* above 0 raises when the raster has none
DetectTreeTops ==
    /\ pc = "treetops"
    /\ \/ pc' = "fetch" /\ treetops' \in RunTreetopLists
       \/ pc' = "ValueError" /\ UNCHANGED treetops
    /\ UNCHANGED <<stems_utm, max_distance, radius, matched_data, pixel_matches>>
    /\ UNCHANGED <<segVars, runVars, wsVars, fdVars, ioVars, exVars, netVars, permVars>>

\* 3) fetch_corners_and_trees_odbc, find_ground_lines_improved,
\* transform_trees_all; cfg.max_distance and cfg.radius_unmatched are read
FetchAndTransformStems ==
    /\ pc = "fetch"
    /\ \/ /\ pc' = "match"
          /\ stems_utm' \in SegStemLists
          /\ \E mp \in MatchParams : max_distance' = mp[1] /\ radius' = mp[2]
       \/ pc' = "OdbcError" /\ UNCHANGED <<stems_utm, max_distance, radius>>
    /\ UNCHANGED <<treetops, matched_data, pixel_matches>>
    /\ UNCHANGED <<segVars, runVars, wsVars, fdVars, ioVars, exVars, netVars, permVars>>

\* the rows of a run without segmentation
no_segmentation_results(stems) ==
    [k \in 1 .. Len(stems) |-> SegRecord(stems[k], None, None, None, 2)]

\* 5) segment_trees_arrays, or the rows built when use_segmentation is off
SegmentTreesArrays ==
    /\ pc = "rescued"
    /\ cfg # <<>>
    /\ IF cfg.use_segmentation
       THEN /\ pc' = "segmatch"
            /\ labels' \in RunLabelGrids
            /\ treetop_coords' \in RunPeakLists
            /\ ndsm' = RunNdsm
            /\ transform' = RunTransform
            /\ UNCHANGED results
       ELSE /\ pc' = "segdone"
            /\ results' = no_segmentation_results(stems_utm)
            /\ UNCHANGED <<labels, treetop_coords, ndsm, transform>>
    /\ UNCHANGED <<label_reads, pmVars, runVars, wsVars, fdVars, ioVars, exVars, netVars, permVars>>

\* pixel_lookup.get(key, None): the height of the last matched record of
\* the key
pixel_lookup(matches, key) ==
    LET hits == {k \in 1 .. Len(matches) :
                    /\ matches[k][5] # None
                    /\ <<matches[k][1], matches[k][2]>> = key}
    IN  IF hits = {} THEN None
        ELSE matches[CHOOSE k \in hits : \A n \in hits : n <= k][7]

\* a merge that keeps only the rows the point matcher matched
MergeMatchedOnly(rows, matches) ==
    LET kept == SelectSeq(rows, LAMBDA r : pixel_lookup(matches, <<r.Parzelle, r.Nr>>) # None)
    IN  [k \in 1 .. Len(kept) |->
            [Parzelle |-> kept[k].Parzelle, Nr |-> kept[k].Nr,
             Stem_UTM_X |-> kept[k].Stem_UTM_X, Stem_UTM_Y |-> kept[k].Stem_UTM_Y,
             Treetop_UTM_X |-> kept[k].Treetop_UTM_X, Treetop_UTM_Y |-> kept[k].Treetop_UTM_Y,
             UAV_Tree_Height_segment |-> kept[k].UAV_Tree_Height_segment,
             UAV_Tree_Height_pixel |-> pixel_lookup(matches, <<kept[k].Parzelle, kept[k].Nr>>),
             match |-> kept[k].match]]

\* a merge that fills an empty segmentation height with the point height
MergeFillsSegmentHeight(rows, matches) ==
    [k \in 1 .. Len(rows) |->
        [Parzelle |-> rows[k].Parzelle, Nr |-> rows[k].Nr,
         Stem_UTM_X |-> rows[k].Stem_UTM_X, Stem_UTM_Y |-> rows[k].Stem_UTM_Y,
         Treetop_UTM_X |-> rows[k].Treetop_UTM_X, Treetop_UTM_Y |-> rows[k].Treetop_UTM_Y,
         UAV_Tree_Height_segment |->
            IF rows[k].UAV_Tree_Height_segment = None
            THEN pixel_lookup(matches, <<rows[k].Parzelle, rows[k].Nr>>)
            ELSE rows[k].UAV_Tree_Height_segment,
         UAV_Tree_Height_pixel |-> pixel_lookup(matches, <<rows[k].Parzelle, rows[k].Nr>>),
         match |-> rows[k].match]]

\* a merge that leaves the rows as the segment matcher built them
MergeNothing(rows, matches) == rows

\* r["UAV_Tree_Height_pixel"] = pixel_lookup.get(key, None) for every row
merge_pixel_heights(rows, matches) ==
    [k \in 1 .. Len(rows) |->
        [Parzelle |-> rows[k].Parzelle, Nr |-> rows[k].Nr,
         Stem_UTM_X |-> rows[k].Stem_UTM_X, Stem_UTM_Y |-> rows[k].Stem_UTM_Y,
         Treetop_UTM_X |-> rows[k].Treetop_UTM_X, Treetop_UTM_Y |-> rows[k].Treetop_UTM_Y,
         UAV_Tree_Height_segment |-> rows[k].UAV_Tree_Height_segment,
         UAV_Tree_Height_pixel |-> pixel_lookup(matches, <<rows[k].Parzelle, rows[k].Nr>>),
         match |-> rows[k].match]]

KeyLeq(r1, r2) ==
    r1.Parzelle < r2.Parzelle \/ (r1.Parzelle = r2.Parzelle /\ r1.Nr <= r2.Nr)

RECURSIVE InsertRow(_, _)
InsertRow(sorted, r) ==
    IF sorted = <<>> THEN <<r>>
    ELSE IF KeyLeq(sorted[Len(sorted)], r) THEN Append(sorted, r)
    ELSE Append(InsertRow(SubSeq(sorted, 1, Len(sorted) - 1), r), sorted[Len(sorted)])

RECURSIVE SortRows(_)
\* sorted(results, key=lambda x: (x["Parzelle"], x["Nr"])), stable
SortRows(rows) ==
    IF rows = <<>> THEN <<>>
    ELSE InsertRow(SortRows(SubSeq(rows, 1, Len(rows) - 1)), rows[Len(rows)])

\* sum(1 for m in pixel_matches if m[4] is not None), and its complement
CountPixel(seq, matched) ==
    Len(SelectSeq(seq, LAMBDA m : (m[5] # None) = matched))

\* sum(1 for r in results if r["match"] == v)
CountMatch(seq, v) == Len(SelectSeq(seq, LAMBDA r : r.match = v))

\* 6) the merge of the pixel heights, the sort and the table
MergePixelHeights ==
    /\ pc = "segdone"
    /\ cfg # <<>>
    /\ df' = SortRows(merge_pixel_heights(results, pixel_matches))
    /\ pc' = "table"
    /\ UNCHANGED <<pmVars, segVars, cfg, ndsm_exists, csv_written, stats, wsVars, fdVars, ioVars, exVars, netVars, permVars>>

\* df.to_csv when output_csv_path is set, the stats, the RunResult
WriteCsvAndReturn ==
    /\ pc = "table"
    /\ csv_written' = IF cfg.has_csv_path THEN Some(df) ELSE csv_written
    /\ stats' =
        [stems_total |-> Len(stems_utm),
         treetops_total |-> Len(treetops),
         pixel_matched |-> CountPixel(pixel_matches, TRUE),
         pixel_unmatched |-> CountPixel(pixel_matches, FALSE),
         seg_matched |->
            IF cfg.use_segmentation THEN CountMatch(results, 1) ELSE 0,
         seg_unmatched |->
            IF cfg.use_segmentation THEN CountMatch(results, 0) ELSE 0,
         seg_no_segment |->
            IF cfg.use_segmentation THEN CountMatch(results, 2) ELSE 0]
    /\ pc' = "returned"
    /\ UNCHANGED <<pmVars, segVars, cfg, ndsm_exists, df, wsVars, fdVars, ioVars, exVars, netVars, permVars>>

Init == InitRun

Next ==
    \/ PrepareNdsm
    \/ DetectTreeTops
    \/ FetchAndTransformStems
    \/ MatchStemsToTreetops
    \/ ProcessUnmatchedStems
    \/ SegmentTreesArrays
    \/ SegmentMatchStems
    \/ MergePixelHeights
    \/ WriteCsvAndReturn

Spec == Init /\ [][Next]_vars

----------------------------------------------------------------------------
(* Claims on run_everything (Spec) *)

\* the point matcher's height for stem i: that of its matched record in
\* pixel_matches, None when it has none
PointHeightOf(i) ==
    LET hits == {k \in 1 .. Len(pixel_matches) :
                    StemOf(pixel_matches[k]) = stems_utm[i] /\ IsMatched(pixel_matches[k])}
    IN  IF hits = {} THEN None ELSE pixel_matches[CHOOSE k \in hits : TRUE][7]

\* the segment matcher's height for stem i, None when segmentation is off
SegHeightOf(i) ==
    IF ~ cfg.use_segmentation THEN None
    ELSE results[CHOOSE k \in 1 .. Len(results) : RecStem(results[k]) = stems_utm[i]]
            .UAV_Tree_Height_segment

RowsOf(i) ==
    {k \in 1 .. Len(df) : <<df[k].Parzelle, df[k].Nr>> = <<stems_utm[i][1], stems_utm[i][2]>>}

\* C9: the final table has exactly one row per transformed stem, keyed by
\* (plot id, stem id); its segmentation height is the segment matcher's and
\* its point height the point matcher's, each null on its own when that
\* matcher gave none, also when segmentation is disabled.
C9_OneRowPerStemBothHeights ==
    pc \in {"table", "returned"} =>
        /\ Len(df) = Len(stems_utm)
        /\ \A i \in 1 .. Len(stems_utm) :
            /\ Cardinality(RowsOf(i)) = 1
            /\ \A k \in RowsOf(i) :
                /\ <<df[k].Stem_UTM_X, df[k].Stem_UTM_Y>> = <<stems_utm[i][3], stems_utm[i][4]>>
                /\ df[k].UAV_Tree_Height_pixel = PointHeightOf(i)
                /\ df[k].UAV_Tree_Height_segment = SegHeightOf(i)

\* a returned table with a row that has only a segmentation height and a
\* row that has only a point height
C9_Witness ==
    /\ pc = "returned"
    /\ \E k, n \in 1 .. Len(df) :
        /\ df[k].UAV_Tree_Height_segment # None /\ df[k].UAV_Tree_Height_pixel = None
        /\ df[n].UAV_Tree_Height_segment = None /\ df[n].UAV_Tree_Height_pixel # None

----------------------------------------------------------------------------
(* pipeline.py: segment_trees_arrays                                       *)
(*                                                                         *)
(* A sigma is given in tenths.  A smoothed surface is kept unnormalised in *)
(* fixed point: its cells are the weighted sums of the Gaussian taps, and  *)
(* GaussScale(sigma) is the sum of all taps, so that "smoothed > t" is     *)
(* "cell > t * GaussScale(sigma)".  The watershed's flooding order comes   *)
(* from the gradient image, the compactness and the age of the queued      *)
(* cells; the model lets any cell on the flooding front be taken next,     *)
(* which includes the order the library takes.                             *)

\* the (row, col) of a grid, 0-based as in numpy
CellsOfGrid(grid) == (0 .. Height(grid) - 1) \X (0 .. Width(grid) - 1)

\* grid[r, c] for an index inside the grid
Cell(grid, r, c) == grid[r + 1][c + 1]

\* mode="nearest": an index beyond the edge reads the edge cell
Clamp(i, n) == IF i < 0 THEN 0 ELSE IF i > n - 1 THEN n - 1 ELSE i

\* int(round(n / d)) for positive n, d: Python rounds a half to even
PyRoundDiv(n, d) ==
    LET q == n \div d
        r == n % d
    IN  IF 2 * r < d THEN q
        ELSE IF 2 * r > d THEN q + 1
        ELSE IF q % 2 = 0 THEN q ELSE q + 1

Max2(a, b) == IF a >= b THEN a ELSE b

Min2(a, b) == IF a <= b THEN a ELSE b

\* a window centred on the raster and not cut to its extent
SubsetWindowUnclamped(full, t, subset_size_meters) ==
    LET px == IF t.a < 0 THEN 0 - t.a ELSE t.a
        py == IF t.e < 0 THEN 0 - t.e ELSE t.e
        w == Max2(1, PyRoundDiv(subset_size_meters, px))
        h == Max2(1, PyRoundDiv(subset_size_meters, py))
        start_x == Width(full) \div 2 - w \div 2
        start_y == Height(full) \div 2 - h \div 2
    IN  [start_y |-> start_y, end_y |-> start_y + h,
         start_x |-> start_x, end_x |-> start_x + w]

\* the window of the subset: [start_y, end_y, start_x, end_x]
subset_window(full, t, subset_size_meters) ==
    LET px == IF t.a < 0 THEN 0 - t.a ELSE t.a
        py == IF t.e < 0 THEN 0 - t.e ELSE t.e
        w == Max2(1, PyRoundDiv(subset_size_meters, px))
        h == Max2(1, PyRoundDiv(subset_size_meters, py))
        cx == Width(full) \div 2
        cy == Height(full) \div 2
        start_x == Max2(0, cx - w \div 2)
        start_y == Max2(0, cy - h \div 2)
        end_x == Min2(Width(full), start_x + w)
        end_y == Min2(Height(full), start_y + h)
    IN  [start_y |-> start_y, end_y |-> end_y, start_x |-> start_x, end_x |-> end_x]

\* src.read(1): every row and column
full_window(full) ==
    [start_y |-> 0, end_y |-> Height(full), start_x |-> 0, end_x |-> Width(full)]

\* src.read(1, window=window)
read_window(full, win) ==
    [r \in 1 .. win.end_y - win.start_y |->
        [c \in 1 .. win.end_x - win.start_x |->
            Cell(full, win.start_y + r - 1, win.start_x + c - 1)]]

\* src.window_transform(window)
window_transform(t, win) ==
    [a |-> t.a, e |-> t.e, c |-> t.c + t.a * win.start_x, f |-> t.f + t.e * win.start_y]

\* np.where(ndsm > ground_threshold, ndsm, 0)
ndsm_cleaned(nd, ground_threshold) ==
    [r \in 1 .. Height(nd) |->
        [c \in 1 .. Width(nd) |->
            IF nd[r][c] > ground_threshold THEN nd[r][c] ELSE 0]]

\* the taps exp(-d^2 / (2 sigma^2)), d = 0 .. int(4 sigma + 0.5), times 10000;
\* sigma 0 leaves the axis unfiltered
GaussTaps(sigma) ==
    IF (4 * sigma + 5) \div 10 = 0 THEN <<1>>
    ELSE <<10000, 6065, 1353, 111, 3>>

RECURSIVE TapSum(_, _, _, _)
\* sum over the offsets d .. radius of tap(|d|) * line[i + d], edges clamped
TapSum(line, taps, i, d) ==
    IF d > Len(taps) - 1 THEN 0
    ELSE taps[(IF d < 0 THEN 0 - d ELSE d) + 1] * line[Clamp(i - 1 + d, Len(line)) + 1]
         + TapSum(line, taps, i, d + 1)

\* scipy.ndimage.correlate1d(line, taps, mode="nearest")
correlate1d(line, taps) ==
    [i \in 1 .. Len(line) |-> TapSum(line, taps, i, 1 - Len(taps))]

\* filters.gaussian(img, sigma): one pass along each axis
gaussian(img, sigma) ==
    LET taps == GaussTaps(sigma)
        rows == [r \in 1 .. Height(img) |-> correlate1d(img[r], taps)]
        column(c) == [r \in 1 .. Height(img) |-> rows[r][c]]
    IN  [r \in 1 .. Height(img) |->
            [c \in 1 .. Width(img) |-> correlate1d(column(c), taps)[r]]]

\* what a surface of constant height 1 smooths to
GaussScale(sigma) ==
    LET one == TapSum(<<1>>, GaussTaps(sigma), 1, 1 - Len(GaussTaps(sigma)))
    IN  one * one

\* ndi.maximum_filter(img, footprint=ones(2 md + 1), mode="nearest") at (r, c)
maximum_filter(img, r, c, md) ==
    LET around == {Cell(img, Clamp(r + dr, Height(img)), Clamp(c + dc, Width(img))) :
                        dr \in (0 - md) .. md, dc \in (0 - md) .. md}
    IN  CHOOSE m \in around : \A v \in around : v <= m

\* skimage _get_peak_mask: the cells equal to their window maximum and above
\* the threshold; a trivial image (every cell its own window maximum) has none
peak_mask(img, scale, md, threshold_abs) ==
    LET above == {q \in CellsOfGrid(img) : Cell(img, q[1], q[2]) > threshold_abs * scale}
        tops == {q \in CellsOfGrid(img) :
                    Cell(img, q[1], q[2]) = maximum_filter(img, q[1], q[2], md)}
    IN  IF Cardinality(CellsOfGrid(img)) = 1 THEN above
        ELSE IF tops = CellsOfGrid(img) THEN {}
        ELSE tops \cap above

\* skimage _exclude_border: min_distance cells off every edge when exclude_border
exclude_border_mask(img, cells, md, exclude_border) ==
    IF ~exclude_border THEN cells
    ELSE {q \in cells : /\ md <= q[1] /\ q[1] < Height(img) - md
                        /\ md <= q[2] /\ q[2] < Width(img) - md}

RECURSIVE SortByIntensity(_, _)
\* np.argsort(-intensities, kind="stable") over the row-major np.nonzero(mask)
SortByIntensity(img, cells) ==
    IF cells = {} THEN <<>>
    ELSE LET first == CHOOSE a \in cells : \A b \in cells :
                        \/ Cell(img, a[1], a[2]) > Cell(img, b[1], b[2])
                        \/ /\ Cell(img, a[1], a[2]) = Cell(img, b[1], b[2])
                           /\ (a[1] < b[1] \/ (a[1] = b[1] /\ a[2] <= b[2]))
         IN  <<first>> \o SortByIntensity(img, cells \ {first})

\* Chebyshev distance (p_norm = inf)
ChebDist(p, q) ==
    Max2(IF p[1] >= q[1] THEN p[1] - q[1] ELSE q[1] - p[1],
         IF p[2] >= q[2] THEN p[2] - q[2] ELSE q[2] - p[2])

RECURSIVE ensure_spacing(_, _, _)
\* skimage ensure_spacing: a kept peak rejects the later ones closer than spacing
ensure_spacing(coords, spacing, kept) ==
    IF coords = <<>> THEN kept
    ELSE IF \E k \in 1 .. Len(kept) : ChebDist(kept[k], Head(coords)) < spacing
         THEN ensure_spacing(Tail(coords), spacing, kept)
         ELSE ensure_spacing(Tail(coords), spacing, Append(kept, Head(coords)))

\* feature.peak_local_max(img, min_distance, threshold_abs, exclude_border)
peak_local_max(image, scale, md, threshold_abs, exclude_border) ==
    LET img == image
        mask == exclude_border_mask(img, peak_mask(img, scale, md, threshold_abs),
                                    md, exclude_border)
    IN  ensure_spacing(SortByIntensity(img, mask), md, <<>>)

\* "if threshold_abs is None: threshold_abs = ground_threshold"
threshold_of(sp) ==
    IF sp.threshold_abs = None THEN sp.ground_threshold ELSE sp.threshold_abs[1]

\* ndsm_for_treetops
ndsm_for_treetops(nd, sp) ==
    gaussian(ndsm_cleaned(nd, sp.ground_threshold), sp.sigma_for_treetops)

\* ndsm_for_seg
ndsm_for_seg(nd, sp) ==
    gaussian(ndsm_cleaned(nd, sp.ground_threshold), sp.sigma_for_segmentation)

\* mask=ndsm_for_seg > 0
watershed_mask(nd, sp) ==
    LET smoothed == ndsm_for_seg(nd, sp)
    IN  {q \in CellsOfGrid(nd) : Cell(smoothed, q[1], q[2]) > 0}

\* markers[r, c] = i + 1, and the watershed's "markers * mask"
markers_in_mask(nd, peaks, mask) ==
    [r \in 1 .. Height(nd) |->
        [c \in 1 .. Width(nd) |->
            LET hit == {i \in 1 .. Len(peaks) : peaks[i] = <<r - 1, c - 1>>}
            IN  IF hit = {} \/ <<r - 1, c - 1>> \notin mask THEN 0
                ELSE CHOOSE i \in hit : \A j \in hit : j <= i]]

\* the neighbours of a cell: connectivity 1 shares an edge, 2 also a corner
Neighbours(grid, q, connectivity) ==
    {n \in CellsOfGrid(grid) :
        /\ n # q
        /\ ChebDist(n, q) <= 1
        /\ (connectivity = 1 => (n[1] = q[1] \/ n[2] = q[2]))}

\* the labels next to a cell
LabelsAround(out, q, connectivity) ==
    {Cell(out, n[1], n[2]) : n \in Neighbours(out, q, connectivity)} \ {0, -1}

\* the flooding front: unlabelled cells of the mask next to a labelled cell
FloodFront(out, mask, connectivity) ==
    {q \in mask : Cell(out, q[1], q[2]) = 0 /\ LabelsAround(out, q, connectivity) # {}}

\* out with out[q] = v
SetCell(out, q, v) == [out EXCEPT ![q[1] + 1][q[2] + 1] = v]

\* regionprops(labels): area of a label
AreaOf(lab, l) == Cardinality({q \in CellsOfGrid(lab) : Cell(lab, q[1], q[2]) = l})

\* the area filter switched off: every region is kept
RemoveNone(out, min_area_threshold) ==
    [r \in 1 .. Height(out) |->
        [c \in 1 .. Width(out) |-> IF out[r][c] <= 0 THEN 0 ELSE out[r][c]]]

\* "for s in small: labels[labels == s] = 0"; a watershed line (-1) is 0
remove_small(out, min_area_threshold) ==
    [r \in 1 .. Height(out) |->
        [c \in 1 .. Width(out) |->
            IF out[r][c] <= 0 \/ AreaOf(out, out[r][c]) < min_area_threshold
            THEN 0 ELSE out[r][c]]]

\* the labels left as the area filter leaves them
RelabelIdentity(lab) == lab

\* relabel_sequential(labels)[0]: the labels in use become 1 .. N, order kept
relabel_sequential(lab) ==
    LET used == {Cell(lab, q[1], q[2]) : q \in CellsOfGrid(lab)} \ {0}
    IN  [r \in 1 .. Height(lab) |->
            [c \in 1 .. Width(lab) |->
                IF lab[r][c] = 0 THEN 0
                ELSE Cardinality({u \in used : u <= lab[r][c]})]]

----------------------------------------------------------------------------
(* segment_trees_arrays on drawn rasters and arguments *)

\* height rasters behind ndsm_path
WsRasters ==
    {<<(<<0, 3, 0>>)>>,
     <<(<<0, 0, 0>>), (<<0, 0, 0>>)>>,
     <<(<<0, 2, 0>>), (<<0, 3, 1>>)>>,
     <<(<<3, 0, 2>>), (<<0, 0, 0>>)>>,
     <<(<<2, 2, 2>>), (<<2, 2, 2>>)>>,
     <<(<<3, 0, 1>>), (<<0, 0, 2>>)>>,
     <<(<<3, 1, 0>>), (<<1, 0, 0>>), (<<0, 0, 2>>)>>}

WsTransform == [a |-> 2, e |-> -2, c |-> 0, f |-> 6]

\* (use_subset, subset_size_meters)
WsWindows == {<<FALSE, 4>>, <<TRUE, 2>>, <<TRUE, 4>>}

\* sigmas in tenths: 0.0 and 1.0
WsSigmas == {0, 10}

WsParams ==
    [ground_threshold : {0, 1},
     sigma_for_treetops : WsSigmas,
     sigma_for_segmentation : WsSigmas,
     min_distance : {1},
     threshold_abs : {None, Some(2)},
     exclude_border : BOOLEAN,
     connectivity : {1, 2},
     watershed_line : BOOLEAN,
     min_area_threshold : {1, 2},
     window : WsWindows]

InitWs ==
    /\ pc = "ws_read"
    /\ seg_params \in WsParams
    /\ src_raster \in [data : WsRasters, transform : {WsTransform}]
    /\ ws_window = <<>>
    /\ ws_mask = {}
    /\ ws_out = <<>>
    /\ stems_utm = <<>>
    /\ PointIdle
    /\ SegIdle
    /\ cfg = <<>>
    /\ ndsm_exists = TRUE
    /\ df = <<>>
    /\ csv_written = <<>>
    /\ stats = <<>>
    /\ FdIdle
    /\ IoIdle
    /\ AdaptersIdle

\* with rasterio.open(ndsm_path) as src: the subset window or the full raster
ReadRaster ==
    /\ pc = "ws_read"
    /\ IF seg_params.window[1]
       THEN LET win == subset_window(src_raster.data, src_raster.transform,
                                     seg_params.window[2])
            IN  /\ ndsm' = read_window(src_raster.data, win)
                /\ transform' = window_transform(src_raster.transform, win)
                /\ ws_window' = win
       ELSE /\ ndsm' = src_raster.data
            /\ transform' = src_raster.transform
            /\ ws_window' = full_window(src_raster.data)
    /\ pc' = "ws_peaks"
    /\ UNCHANGED <<labels, treetop_coords, results, label_reads>>
    /\ UNCHANGED <<pmVars, runVars, fdVars, ioVars, exVars, netVars, permVars, seg_params, src_raster, ws_mask, ws_out>>

\* cleaning, the two smoothings, peak_local_max and the markers
PeakLocalMaxAndMarkers ==
    /\ pc = "ws_peaks"
    /\ LET peaks == peak_local_max(ndsm_for_treetops(ndsm, seg_params),
                                   GaussScale(seg_params.sigma_for_treetops),
                                   seg_params.min_distance,
                                   threshold_of(seg_params),
                                   seg_params.exclude_border)
           mask == watershed_mask(ndsm, seg_params)
       IN  /\ treetop_coords' = peaks
           /\ ws_mask' = mask
           /\ ws_out' = markers_in_mask(ndsm, peaks, mask)
    /\ pc' = "ws_flood"
    /\ UNCHANGED <<labels, ndsm, transform, results, label_reads>>
    /\ UNCHANGED <<pmVars, runVars, fdVars, ioVars, exVars, netVars, permVars, seg_params, src_raster, ws_window>>

\* sk_seg.watershed: one cell of the flooding front takes the label of a
\* labelled neighbour, or with watershed_line stays a line between two labels
WatershedFlood ==
    /\ pc = "ws_flood"
    /\ \E q \in FloodFront(ws_out, ws_mask, seg_params.connectivity) :
          LET around == LabelsAround(ws_out, q, seg_params.connectivity)
          IN  IF seg_params.watershed_line /\ Cardinality(around) >= 2
              THEN ws_out' = SetCell(ws_out, q, -1)
              ELSE \E l \in around : ws_out' = SetCell(ws_out, q, l)
    /\ UNCHANGED <<pc, pmVars, segVars, runVars, fdVars, ioVars, exVars, netVars, permVars, seg_params, src_raster, ws_window, ws_mask>>

\* the flooding is over: small segments removed, labels made sequential
RemoveSmallAndRelabel ==
    /\ pc = "ws_flood"
    /\ FloodFront(ws_out, ws_mask, seg_params.connectivity) = {}
    /\ labels' = relabel_sequential(remove_small(ws_out, seg_params.min_area_threshold))
    /\ pc' = "ws_done"
    /\ UNCHANGED <<treetop_coords, ndsm, transform, results, label_reads>>
    /\ UNCHANGED <<pmVars, runVars, wsVars, fdVars, ioVars, exVars, netVars, permVars>>

NextWs ==
    \/ ReadRaster
    \/ PeakLocalMaxAndMarkers
    \/ WatershedFlood
    \/ RemoveSmallAndRelabel

SpecWs == InitWs /\ [][NextWs]_vars

----------------------------------------------------------------------------
(* Properties of segment_trees_arrays *)

\* the cells of the returned raster at or below the ground threshold
GroundCells ==
    {q \in CellsOfGrid(ndsm) : Cell(ndsm, q[1], q[2]) <= seg_params.ground_threshold}

\* C10: in the label grid segment_trees_arrays returns, every cell whose
\* height is at or below the ground threshold (cleaned surface 0) has label 0
C10_LabelZeroWhereCleanedZero ==
    pc = "ws_done" =>
        \A q \in GroundCells :
            /\ Cell(ndsm_cleaned(ndsm, seg_params.ground_threshold), q[1], q[2]) = 0
            /\ Cell(labels, q[1], q[2]) = 0

\* the positive values of a label grid
PositiveLabels(lab) == {Cell(lab, q[1], q[2]) : q \in CellsOfGrid(lab)} \ {0, -1}

\* the watershed's output after the area filter, before the relabelling
SurvivingLabels == remove_small(ws_out, seg_params.min_area_threshold)

\* C11: the positive labels of the returned grid are exactly 1 .. N, and two
\* cells share a positive final label iff they shared a surviving label
\* before the relabelling
C11_LabelsDenseAndOneToOne ==
    pc = "ws_done" =>
        /\ PositiveLabels(labels) = 1 .. Cardinality(PositiveLabels(labels))
        /\ \A p \in CellsOfGrid(labels), q \in CellsOfGrid(labels) :
              (Cell(labels, p[1], p[2]) > 0 /\ Cell(labels, p[1], p[2]) = Cell(labels, q[1], q[2]))
              <=> (/\ Cell(SurvivingLabels, p[1], p[2]) > 0
                   /\ Cell(SurvivingLabels, p[1], p[2]) = Cell(SurvivingLabels, q[1], q[2]))

\* a region survived whose label had a gap below it before the relabelling
C11_Witness ==
    /\ pc = "ws_done"
    /\ PositiveLabels(labels) # {}
    /\ PositiveLabels(SurvivingLabels) # 1 .. Cardinality(PositiveLabels(SurvivingLabels))

----------------------------------------------------------------------------
(* segment_trees_arrays followed by segment_match_stems, as run_everything *)
(* chains them                                                             *)

\* projected stem positions on the raster of WsTransform
WsStemPoints == {<<1, 5>>, <<5, 5>>, <<5, 3>>}

WsStemLists ==
    UNION {{[i \in 1 .. n |-> <<StemIds[i][1], StemIds[i][2], ps[i][1], ps[i][2]>>] :
                ps \in SeqsOver(WsStemPoints, n)} : n \in 0 .. MaxSegStems}

WsMatchParams ==
    [ground_threshold : {0, 1},
     sigma_for_treetops : {0},
     sigma_for_segmentation : WsSigmas,
     min_distance : {1},
     threshold_abs : {None},
     exclude_border : {FALSE},
     connectivity : {1},
     watershed_line : BOOLEAN,
     min_area_threshold : {1, 2},
     window : {<<FALSE, 4>>, <<TRUE, 4>>}]

InitWsMatch ==
    /\ pc = "ws_read"
    /\ seg_params \in WsMatchParams
    /\ src_raster \in [data : WsRasters, transform : {WsTransform}]
    /\ ws_window = <<>>
    /\ ws_mask = {}
    /\ ws_out = <<>>
    /\ stems_utm \in WsStemLists
    /\ PointIdle
    /\ SegIdle
    /\ cfg = <<>>
    /\ ndsm_exists = TRUE
    /\ df = <<>>
    /\ csv_written = <<>>
    /\ stats = <<>>
    /\ FdIdle
    /\ IoIdle
    /\ AdaptersIdle

\* "return labels, treetop_coords, ndsm, transform, fig": the caller hands the
\* four arrays to segment_match_stems
ReturnArrays ==
    /\ pc = "ws_done"
    /\ pc' = "segmatch"
    /\ UNCHANGED <<pmVars, segVars, runVars, wsVars, fdVars, ioVars, exVars, netVars, permVars>>

NextWsMatch ==
    \/ ReadRaster
    \/ PeakLocalMaxAndMarkers
    \/ WatershedFlood
    \/ RemoveSmallAndRelabel
    \/ ReturnArrays
    \/ SegmentMatchStems

SpecWsMatch == InitWsMatch /\ [][NextWsMatch]_vars

----------------------------------------------------------------------------
(* Properties of the chained calls *)

\* the cells of the watershed regions smaller than min_area_threshold
RemovedCells ==
    {q \in CellsOfGrid(ws_out) :
        /\ Cell(ws_out, q[1], q[2]) > 0
        /\ AreaOf(ws_out, Cell(ws_out, q[1], q[2])) < seg_params.min_area_threshold}

\* the cells of the watershed regions of at least min_area_threshold cells
KeptCells ==
    {q \in CellsOfGrid(ws_out) :
        /\ Cell(ws_out, q[1], q[2]) > 0
        /\ AreaOf(ws_out, Cell(ws_out, q[1], q[2])) >= seg_params.min_area_threshold}

\* C12: a watershed region below min_area_threshold is 0 in the returned grid
\* and a region of at least that size survives; a stem on a removed region is
\* NO_REGION with null fields, and no MATCHED or UNMATCHED record has its stem
\* or its treetop on a removed region
C12_SmallRegionsRemoved ==
    /\ pc \in {"ws_done", "segmatch", "segdone"} =>
          /\ \A q \in RemovedCells : Cell(labels, q[1], q[2]) = 0
          /\ \A q \in KeptCells : Cell(labels, q[1], q[2]) > 0
    /\ pc = "segdone" =>
          \A i \in 1 .. Len(results) :
              LET rec == results[i]
                  sp == rowcol(transform, rec.Stem_UTM_X, rec.Stem_UTM_Y)
              IN  /\ sp \in RemovedCells => rec.match = 2 /\ NullTop(rec)
                  /\ rec.match \in {0, 1} => sp \in KeptCells
                  /\ rec.match = 1 =>
                        rowcol(transform, rec.Treetop_UTM_X[1], rec.Treetop_UTM_Y[1]) \in KeptCells

\* a stem stands on a removed region while another region survived
C12_Witness ==
    /\ pc = "segdone"
    /\ KeptCells # {}
    /\ \E i \in 1 .. Len(results) :
          /\ rowcol(transform, results[i].Stem_UTM_X, results[i].Stem_UTM_Y) \in RemovedCells
          /\ results[i].match = 2

----------------------------------------------------------------------------
(* Further properties of the point matcher *)

\* C13: match_stems_to_treetops never raises, whatever the stems, the
\* treetops and max_distance are
C13_MatcherNeverRaises == pc # "ValueError"

\* the solved pairs <<stem index, treetop index>> behind the matched records
AssignedPairs ==
    {<<i, j>> \in (1 .. Len(stems_utm)) \X (1 .. Len(treetops)) :
        \E k \in 1 .. Len(matched_data) :
            /\ IsMatched(matched_data[k])
            /\ StemOf(matched_data[k]) = stems_utm[i]
            /\ <<matched_data[k][5][1], matched_data[k][6][1], matched_data[k][7][1]>> = treetops[j]}

\* the pairs of distance <= max_distance
EligiblePairs ==
    {<<i, j>> \in (1 .. Len(stems_utm)) \X (1 .. Len(treetops)) :
        WithinDistance(stems_utm[i][3], stems_utm[i][4], treetops[j][1], treetops[j][2],
                       max_distance)}

\* no stem and no treetop twice
OneToOne(pairs) ==
    \A p \in pairs, q \in pairs : p # q => p[1] # q[1] /\ p[2] # q[2]

\* the one-to-one pairings of n eligible pairs
EligiblePairings(n) ==
    {b \in SUBSET EligiblePairs : Cardinality(b) = n /\ OneToOne(b)}

RECURSIVE TotalDistance(_)
TotalDistance(pairs) ==
    IF pairs = {} THEN 0
    ELSE LET p == CHOOSE q \in pairs : TRUE
         IN  Dist(stems_utm[p[1]][3], stems_utm[p[1]][4],
                  treetops[p[2]][1], treetops[p[2]][2]) + TotalDistance(pairs \ {p})

\* C19: the assignment-step matches are a one-to-one pairing of eligible
\* pairs whose summed distance is least among all such pairings of that size
C19_MinimalTotalDistance ==
    pc = "rescue" =>
        /\ AssignedPairs \in EligiblePairings(Cardinality(AssignedPairs))
        /\ \A b \in EligiblePairings(Cardinality(AssignedPairs)) :
              TotalDistance(AssignedPairs) <= TotalDistance(b)

\* a matched stem did not get its nearest eligible treetop, and a pairing of
\* the same size with a larger sum exists
C19_Witness ==
    /\ pc = "rescue"
    /\ \E p \in AssignedPairs, q \in EligiblePairs :
          /\ q[1] = p[1]
          /\ TotalDistance({q}) < TotalDistance({p})
    /\ \E b \in EligiblePairings(Cardinality(AssignedPairs)) :
          TotalDistance(AssignedPairs) < TotalDistance(b)

\* C20: no treetop (by index) is assigned to two stems and no stem appears in
\* two matched records
C20_UniqueGlobalMatches ==
    pc = "rescue" =>
        /\ OneToOne(AssignedPairs)
        /\ \A k1 \in 1 .. Len(matched_data), k2 \in 1 .. Len(matched_data) :
              (/\ k1 # k2
               /\ IsMatched(matched_data[k1])
               /\ IsMatched(matched_data[k2]))
              => /\ StemOf(matched_data[k1]) # StemOf(matched_data[k2])
                 /\ <<matched_data[k1][5], matched_data[k1][6]>>
                        # <<matched_data[k2][5], matched_data[k2][6]>>

\* two stems compete for the same treetops and both are matched
C20_Witness ==
    /\ pc = "rescue"
    /\ Cardinality(AssignedPairs) >= 2
    /\ \E p \in AssignedPairs, q \in AssignedPairs :
          p # q /\ <<q[1], p[2]>> \in EligiblePairs /\ <<p[1], q[2]>> \in EligiblePairs

----------------------------------------------------------------------------
(* Further properties of run_everything *)

\* the exceptions a stage of run_everything ends the run with
RaisedPcs ==
    {"RuntimeError", "NdsmPipelineError", "FileNotFoundError", "ValueError",
     "OdbcError", "IndexError"}

column_order ==
    {"Parzelle", "Nr", "Stem_UTM_X", "Stem_UTM_Y", "Treetop_UTM_X", "Treetop_UTM_Y",
     "UAV_Tree_Height_segment", "UAV_Tree_Height_pixel", "match"}

\* C14: a run ends either returned, with a table built after both matching
\* passes and the merge (one row of all nine columns per segment-matcher
\* row), or raised, with no table, no stats and no CSV; a CSV exists only
\* once the merged table is complete and is that table
C14_CompleteResultOrError ==
    /\ pc \in RaisedPcs => df = <<>> /\ stats = <<>> /\ csv_written = None
    /\ csv_written # None => pc = "returned" /\ cfg.has_csv_path /\ csv_written = Some(df)
    /\ pc = "returned" =>
          /\ pixel_matches = process_unmatched_stems(matched_data, treetops, radius)
          /\ Len(results) = Len(stems_utm)
          /\ Len(df) = Len(results)
          /\ \A k \in 1 .. Len(df) : DOMAIN df[k] = column_order
          /\ stats # <<>>
          /\ (cfg.compute_ndsm => cfg.has_credentials)
          /\ ndsm_exists

\* a run with stems returned and wrote its CSV
C14_Witness ==
    /\ pc = "returned"
    /\ csv_written # None
    /\ Len(df) >= 2
    /\ cfg.use_segmentation

----------------------------------------------------------------------------
(* modules/segmentation.py: segment_trees(return_arrays=True).  After the   *)
(* read it cleans, smooths, floods, filters and relabels as                 *)
(* segment_trees_arrays does.                                               *)

\* a slice bound as numpy reads it: a negative bound counts from the end,
\* and bounds are cut to the axis
PySlice(i, n) == IF i < 0 THEN Max2(0, i + n) ELSE Min2(i, n)

\* ndsm[start_y:end_y, start_x:end_x] around the raster's centre
segment_trees_window(full, t, subset_size_meters) ==
    LET pixel_size_x == IF t.a < 0 THEN 0 - t.a ELSE t.a
        pixel_size_y == IF t.e < 0 THEN 0 - t.e ELSE t.e
        subset_size_pixels_x == subset_size_meters \div pixel_size_x
        subset_size_pixels_y == subset_size_meters \div pixel_size_y
        center_x == Width(full) \div 2
        center_y == Height(full) \div 2
        start_x == center_x - subset_size_pixels_x \div 2
        start_y == center_y - subset_size_pixels_y \div 2
        end_x == start_x + subset_size_pixels_x
        end_y == start_y + subset_size_pixels_y
    IN  [start_y |-> PySlice(start_y, Height(full)), end_y |-> PySlice(end_y, Height(full)),
         start_x |-> PySlice(start_x, Width(full)), end_x |-> PySlice(end_x, Width(full))]

SegTreesParams ==
    [ground_threshold : {0, 1},
     sigma_for_treetops : {0},
     sigma_for_segmentation : WsSigmas,
     min_distance : {1},
     threshold_abs : {None},
     exclude_border : {FALSE},
     connectivity : {1},
     watershed_line : BOOLEAN,
     min_area_threshold : {1, 2},
     window : WsWindows]

InitSegTrees ==
    /\ pc = "st_read"
    /\ seg_params \in SegTreesParams
    /\ src_raster \in [data : WsRasters, transform : {WsTransform}]
    /\ ws_window = <<>>
    /\ ws_mask = {}
    /\ ws_out = <<>>
    /\ stems_utm = <<>>
    /\ PointIdle
    /\ SegIdle
    /\ cfg = <<>>
    /\ ndsm_exists = TRUE
    /\ df = <<>>
    /\ csv_written = <<>>
    /\ stats = <<>>
    /\ FdIdle
    /\ IoIdle
    /\ AdaptersIdle

\* the read of segment_trees: the whole band and src.transform are read, the
\* band is sliced when use_subset, and the transform is returned as read
ReadRasterSegmentTrees ==
    /\ pc = "st_read"
    /\ ws_window' = IF seg_params.window[1]
                    THEN segment_trees_window(src_raster.data, src_raster.transform,
                                              seg_params.window[2])
                    ELSE full_window(src_raster.data)
    /\ ndsm' = read_window(src_raster.data, ws_window')
    /\ transform' = src_raster.transform
    /\ pc' = "ws_peaks"
    /\ UNCHANGED <<labels, treetop_coords, results, label_reads>>
    /\ UNCHANGED <<pmVars, runVars, fdVars, ioVars, exVars, netVars, permVars, seg_params, src_raster, ws_mask, ws_out>>

NextSegTrees ==
    \/ ReadRasterSegmentTrees
    \/ PeakLocalMaxAndMarkers
    \/ WatershedFlood
    \/ RemoveSmallAndRelabel

SpecSegTrees == InitSegTrees /\ [][NextSegTrees]_vars

----------------------------------------------------------------------------
(* Properties of the returned transform *)

\* C15: the transform returned with the grid maps the grid's pixel (0, 0) to
\* the projected position of the upper-left cell that was read, with the
\* raster's pixel size; for a cropped grid this is not the raster's transform
\* unless the window starts at the raster's origin
C15_TransformOfReturnedGrid ==
    pc = "ws_done" =>
        /\ transform.a = src_raster.transform.a
        /\ transform.e = src_raster.transform.e
        /\ transform.c = src_raster.transform.c + src_raster.transform.a * ws_window.start_x
        /\ transform.f = src_raster.transform.f + src_raster.transform.e * ws_window.start_y

----------------------------------------------------------------------------
(* pipeline.py: find_ground_lines_improved and transform_trees_all.        *)
(* Coordinates are integers; the drawn ground lines have integer length    *)
(* and the drawn trees give integer products, so that the divisions by the *)
(* length are exact.                                                       *)

MaxTrees == 2

\* the plots in the order of their first corner point: parz (a dict)
PlotsInOrder(points) ==
    LET firsts == {i \in 1 .. Len(points) :
                      \A j \in 1 .. i - 1 : points[j][1] # points[i][1]}
        idx == SortedSeq(firsts)
    IN  [k \in 1 .. Len(idx) |-> points[idx[k]][1]]

\* parz[parzelle], in input order
PointsOfPlot(points, parzelle) == SelectSeq(points, LAMBDA q : q[1] = parzelle)

RECURSIVE InsertByYX(_, _)
\* one step of the stable sort by key (r[3], r[2])
InsertByYX(sorted, r) ==
    IF sorted = <<>> THEN <<r>>
    ELSE LET last == sorted[Len(sorted)]
         IN  IF last[4] < r[4] \/ (last[4] = r[4] /\ last[3] <= r[3])
             THEN Append(sorted, r)
             ELSE Append(InsertByYX(SubSeq(sorted, 1, Len(sorted) - 1), r), last)

RECURSIVE SortByYX(_)
\* sorted(pts, key=lambda r: (r[3], r[2]))
SortByYX(pts) ==
    IF pts = <<>> THEN <<>>
    ELSE InsertByYX(SortByYX(SubSeq(pts, 1, Len(pts) - 1)), pts[Len(pts)])

\* sorted(pts_sorted[:2], key=lambda r: r[2]): stable on two points
low2(pts_sorted) ==
    IF pts_sorted[1][3] <= pts_sorted[2][3]
    THEN <<pts_sorted[1], pts_sorted[2]>>
    ELSE <<pts_sorted[2], pts_sorted[1]>>

\* the first two corner points as listed, unsorted
GroundLineFirstTwo(pts) ==
    <<(<<pts[1][3], pts[1][4]>>), (<<pts[2][3], pts[2][4]>>)>>

\* out[parzelle] = (ll, lr)
ground_line_of(pts) ==
    LET l2 == low2(SortByYX(pts))
    IN  <<(<<l2[1][3], l2[1][4]>>), (<<l2[2][3], l2[2][4]>>)>>

\* find_ground_lines_improved(corner_points): <<parzelle, ll, lr>> per plot
\* of at least two corner points, in dict order
find_ground_lines_improved(points) ==
    LET plots == SelectSeq(PlotsInOrder(points),
                           LAMBDA z : Len(PointsOfPlot(points, z)) >= 2)
    IN  [k \in 1 .. Len(plots) |->
            <<plots[k], ground_line_of(PointsOfPlot(points, plots[k]))[1],
              ground_line_of(PointsOfPlot(points, plots[k]))[2]>>]

\* gv and gl = np.linalg.norm(gv)
GroundVector(ll, lr) == <<lr[1] - ll[1], lr[2] - ll[2]>>

GroundLength(ll, lr) ==
    ISqrt(GroundVector(ll, lr)[1] * GroundVector(ll, lr)[1]
          + GroundVector(ll, lr)[2] * GroundVector(ll, lr)[2])

\* the right-hand perpendicular
PerpRight(gv) == <<gv[2], 0 - gv[1]>>

\* perp = (-ug[1], ug[0]), times gl
PerpLeft(gv) == <<0 - gv[2], gv[1]>>

\* (parzelle, nr, ll + x * ug + y * perp)
transform_tree(tree, ll, lr) ==
    LET gv == GroundVector(ll, lr)
        gl == GroundLength(ll, lr)
        perp == PerpLeft(gv)
    IN  <<tree[1], tree[2],
          ll[1] + (tree[3] * gv[1] + tree[4] * perp[1]) \div gl,
          ll[2] + (tree[3] * gv[2] + tree[4] * perp[2]) \div gl>>

RECURSIVE transform_trees_all(_, _)
\* transform_trees_all(trees_local, ground_lines)
transform_trees_all(trees, lines) ==
    IF lines = <<>> THEN <<>>
    ELSE LET line == Head(lines)
             pts == SelectSeq(trees, LAMBDA t : t[1] = line[1])
         IN  (IF GroundLength(line[2], line[3]) = 0 THEN <<>>
              ELSE [k \in 1 .. Len(pts) |-> transform_tree(pts[k], line[2], line[3])])
             \o transform_trees_all(trees, Tail(lines))

----------------------------------------------------------------------------
(* the two field-data functions on drawn corner points and trees *)

\* corner points of plot 1: axis-parallel ground lines, two identical lowest
\* corners, a single corner
Plot1Corners ==
    {<<(<<1, 101, 0, 0>>), (<<1, 102, 10, 0>>)>>,
     <<(<<1, 101, 10, 10>>), (<<1, 102, 10, 0>>), (<<1, 103, 0, 0>>), (<<1, 104, 0, 10>>)>>,
     <<(<<1, 101, 0, 0>>), (<<1, 102, 0, 10>>)>>,
     <<(<<1, 101, 2, 1>>), (<<1, 102, 2, 1>>), (<<1, 103, 2, 8>>)>>,
     <<(<<1, 101, 3, 3>>)>>}

\* corner points of plot 2: none, or a plot turned against the axes
Plot2Corners ==
    {<<>>,
     <<(<<2, 201, 0, 0>>), (<<2, 202, 4, 3>>), (<<2, 203, -3, 4>>), (<<2, 204, 1, 7>>)>>,
     <<(<<2, 201, 3, 0>>), (<<2, 202, 0, 4>>)>>}

CornerLists ==
    {a \o b : a \in Plot1Corners, b \in Plot2Corners}
    \cup {b \o a : a \in Plot1Corners, b \in Plot2Corners}

\* trees (Parzelle, Nr, x, y, z) in plot coordinates
TreePool ==
    {<<1, 1, 5, 2, 0>>, <<1, 2, 0, 0, 0>>, <<2, 1, 5, 0, 0>>, <<2, 2, 0, 5, 0>>}

TreeLists ==
    UNION {{t \in SeqsOver(TreePool, n) : Injective(t)} : n \in 0 .. MaxTrees}

InitStems ==
    /\ pc = "ground_lines"
    /\ corner_points \in CornerLists
    /\ trees_local \in TreeLists
    /\ ground_lines = <<>>
    /\ stems_utm = <<>>
    /\ PointIdle
    /\ SegIdle
    /\ cfg = <<>>
    /\ ndsm_exists = TRUE
    /\ df = <<>>
    /\ csv_written = <<>>
    /\ stats = <<>>
    /\ WsIdle
    /\ IoIdle
    /\ AdaptersIdle

\* ground_lines = find_ground_lines_improved(corners)
FindGroundLines ==
    /\ pc = "ground_lines"
    /\ ground_lines' = find_ground_lines_improved(corner_points)
    /\ pc' = "transform_trees"
    /\ UNCHANGED <<corner_points, trees_local>>
    /\ UNCHANGED <<pmVars, segVars, runVars, wsVars, ioVars, exVars, netVars, permVars>>

\* stems_utm = transform_trees_all(trees_local, ground_lines)
TransformTreesAll ==
    /\ pc = "transform_trees"
    /\ stems_utm' = transform_trees_all(trees_local, ground_lines)
    /\ pc' = "stems_done"
    /\ UNCHANGED <<treetops, max_distance, radius, matched_data, pixel_matches>>
    /\ UNCHANGED <<segVars, runVars, wsVars, fdVars, ioVars, exVars, netVars, permVars>>

NextStems == FindGroundLines \/ TransformTreesAll

SpecStems == InitStems /\ [][NextStems]_vars

----------------------------------------------------------------------------
(* Properties of the field-data functions *)

\* the ground line of a plot, if it has one
LineOfPlot(parzelle) ==
    SelectSeq(ground_lines, LAMBDA line : line[1] = parzelle)

\* the stems the trees of a plot were mapped to
StemsOfTree(tree) ==
    SelectSeq(stems_utm, LAMBDA s : s[1] = tree[1] /\ s[2] = tree[2])

\* C16: a tree at local (x, y) of a plot with a ground line of length gl > 0
\* maps to lower_left + x * u + y * p, u the unit vector from lower-left to
\* lower-right and p = (-u_y, u_x); stated times gl.  Local (0, 0) maps to
\* lower_left, and corners (1,101,0,0), (1,102,10,0) with the tree
\* (1,1,5,2,0) give the stem (1, 1, 5, 2)
C16_LocalToProjected ==
    pc = "stems_done" =>
        /\ \A k \in 1 .. Len(trees_local) :
              LET tree == trees_local[k]
                  lines == LineOfPlot(tree[1])
              IN  (lines # <<>> /\ GroundLength(lines[1][2], lines[1][3]) > 0) =>
                    LET ll == lines[1][2]
                        lr == lines[1][3]
                        gl == GroundLength(ll, lr)
                        s == StemsOfTree(tree)
                    IN  /\ Len(s) = 1
                        /\ gl * gl = (lr[1] - ll[1]) * (lr[1] - ll[1])
                                     + (lr[2] - ll[2]) * (lr[2] - ll[2])
                        /\ gl * (s[1][3] - ll[1])
                              = tree[3] * (lr[1] - ll[1]) - tree[4] * (lr[2] - ll[2])
                        /\ gl * (s[1][4] - ll[2])
                              = tree[3] * (lr[2] - ll[2]) + tree[4] * (lr[1] - ll[1])
                        /\ (tree[3] = 0 /\ tree[4] = 0) => <<s[1][3], s[1][4]>> = ll
        /\ (/\ corner_points = <<(<<1, 101, 0, 0>>), (<<1, 102, 10, 0>>)>>
            /\ trees_local = <<(<<1, 1, 5, 2, 0>>)>>)
              => stems_utm = <<(<<1, 1, 5, 2>>)>>

\* a tree off the ground line of a plot turned against the axes was mapped
C16_Witness ==
    /\ pc = "stems_done"
    /\ \E k \in 1 .. Len(trees_local) :
          /\ trees_local[k][4] # 0
          /\ LineOfPlot(trees_local[k][1]) # <<>>
          /\ LineOfPlot(trees_local[k][1])[1][2][2] # LineOfPlot(trees_local[k][1])[1][3][2]
          /\ StemsOfTree(trees_local[k]) # <<>>

----------------------------------------------------------------------------
(* modules/tree_tops.py: local_to_utm, and the way back through rowcol *)

\* a caller that passes (row, col) as (x, y)
LocalToUtmRowFirst(coords, t) ==
    [k \in 1 .. Len(coords) |->
        <<t.c + t.a * coords[k][1], t.f + t.e * coords[k][2]>>]

\* "x_utm, y_utm = transform * (col, row)" for every (row, col)
local_to_utm(coords, t) ==
    [k \in 1 .. Len(coords) |->
        <<t.c + t.a * coords[k][2], t.f + t.e * coords[k][1]>>]

\* rasterio.transform.xy(transform, row, col, offset="center") for every pixel
pixel_centres(coords, t) ==
    [k \in 1 .. Len(coords) |-> xy_center(t, coords[k][1], coords[k][2])]

\* transforms of either sign of the pixel size
RtTransforms ==
    {[a |-> 2, e |-> -2, c |-> 0, f |-> 4], [a |-> 3, e |-> -3, c |-> -2, f |-> 7],
     [a |-> 1, e |-> -1, c |-> 5, f |-> -5], [a |-> 2, e |-> 3, c |-> 1, f |-> 0],
     [a |-> -3, e |-> -2, c |-> 9, f |-> 6], [a |-> -1, e |-> 5, c |-> 0, f |-> 0]}

\* the pixels of a raster of three rows and four columns
RtPixels == (0 .. 2) \X (0 .. 3)

RtPixelLists == UNION {SeqsOver(RtPixels, n) : n \in 0 .. 2}

InitRoundTrip ==
    /\ pc = "pixels"
    /\ transform \in RtTransforms
    /\ treetop_coords \in RtPixelLists
    /\ treetops = <<>>
    /\ results = <<>>
    /\ labels = <<>>
    /\ ndsm = <<>>
    /\ label_reads = {}
    /\ stems_utm = <<>>
    /\ max_distance = 0
    /\ radius = 0
    /\ matched_data = <<>>
    /\ pixel_matches = <<>>
    /\ RunIdle
    /\ AdaptersIdle

\* utm_coords = local_to_utm(tree_top_coords, transform)
LocalToUtm ==
    /\ pc = "pixels"
    /\ treetops' = local_to_utm(treetop_coords, transform)
    /\ pc' = "projected"
    /\ UNCHANGED <<stems_utm, max_distance, radius, matched_data, pixel_matches>>
    /\ UNCHANGED <<segVars, runVars, wsVars, fdVars, ioVars, exVars, netVars, permVars>>

\* the pixel-centre conversion of segment_match_stems
PixelCentres ==
    /\ pc = "pixels"
    /\ treetops' = pixel_centres(treetop_coords, transform)
    /\ pc' = "projected"
    /\ UNCHANGED <<stems_utm, max_distance, radius, matched_data, pixel_matches>>
    /\ UNCHANGED <<segVars, runVars, wsVars, fdVars, ioVars, exVars, netVars, permVars>>

\* rr, cc = rasterio.transform.rowcol(transform, x, y) for every position
RowColBack ==
    /\ pc = "projected"
    /\ results' = [k \in 1 .. Len(treetops) |-> rowcol(transform, treetops[k][1], treetops[k][2])]
    /\ pc' = "roundtrip"
    /\ UNCHANGED <<labels, treetop_coords, ndsm, transform, label_reads>>
    /\ UNCHANGED <<pmVars, runVars, wsVars, fdVars, ioVars, exVars, netVars, permVars>>

NextRoundTrip == LocalToUtm \/ PixelCentres \/ RowColBack

SpecRoundTrip == InitRoundTrip /\ [][NextRoundTrip]_vars

Abs(n) == IF n < 0 THEN 0 - n ELSE n

\* C17: a pixel of the raster converted to a projected position (its corner
\* by local_to_utm or its centre) and back with the same transform comes
\* back within one pixel in row and in column
C17_RoundTripWithinOnePixel ==
    pc = "roundtrip" =>
        /\ Len(results) = Len(treetop_coords)
        /\ \A k \in 1 .. Len(results) :
              /\ Abs(results[k][1] - treetop_coords[k][1]) <= 1
              /\ Abs(results[k][2] - treetop_coords[k][2]) <= 1

\* a pixel off the diagonal went through a transform of negative pixel width
C17_Witness ==
    /\ pc = "roundtrip"
    /\ transform.a < 0
    /\ \E k \in 1 .. Len(results) :
          /\ treetop_coords[k] = <<0, 3>>
          /\ results[k] = <<0, 3>>

----------------------------------------------------------------------------
(* modules/ndsm_tools: compute_ndsm.  A raster is its band, its nodata     *)
(* value and its coordinate reference.                                     *)

\* array.shape
ShapeOf(grid) == <<Height(grid), Width(grid)>>

\* numpy can broadcast two shapes when on every axis they agree or one is 1
Broadcastable(s1, s2) ==
    \A ax \in 1 .. 2 : s1[ax] = s2[ax] \/ s1[ax] = 1 \/ s2[ax] = 1

\* grid[r, c] of a grid broadcast to a larger shape
BroadcastAt(grid, r, c) ==
    grid[IF Height(grid) = 1 THEN 1 ELSE r][IF Width(grid) = 1 THEN 1 ELSE c]

\* out = np.where(mask, nodata, dsm_arr - dtm_arr)
ndsm_difference(s, g, nodata) ==
    [r \in 1 .. Max2(Height(s.data), Height(g.data)) |->
        [c \in 1 .. Max2(Width(s.data), Width(g.data)) |->
            IF \/ BroadcastAt(s.data, r, c) = s.nodata
               \/ BroadcastAt(g.data, r, c) = g.nodata
            THEN nodata
            ELSE BroadcastAt(s.data, r, c) - BroadcastAt(g.data, r, c)]]

IoRasters ==
    [crs : {"EPSG:25832", "EPSG:4326"},
     nodata : {-9999},
     data : {<<(<<5, 7, -9999>>)>>,
             <<(<<5, 7, 6>>), (<<4, 4, 4>>)>>,
             <<(<<2>>), (<<3>>)>>,
             <<(<<1, 2>>), (<<3, 4>>)>>,
             <<(<<9, 8, 7>>), (<<6, -9999, 4>>)>>}]

InitNdsm ==
    /\ pc = "compute_ndsm"
    /\ dsm \in IoRasters
    /\ dtm \in IoRasters
    /\ ndsm_exists = FALSE
    /\ stems_utm = <<>>
    /\ PointIdle
    /\ SegIdle
    /\ cfg = <<>>
    /\ df = <<>>
    /\ csv_written = <<>>
    /\ stats = <<>>
    /\ WsIdle
    /\ FdIdle
    /\ AdaptersIdle

\* compute_ndsm(dsm_path, dtm_aligned_path, ndsm_out_path): the difference is
\* formed before the output is opened; an array of another shape than the
\* profile's either makes the writer raise on the created file or is written
ComputeNdsm ==
    /\ pc = "compute_ndsm"
    /\ IF ~ Broadcastable(ShapeOf(dsm.data), ShapeOf(dtm.data))
       THEN pc' = "ValueError" /\ UNCHANGED <<ndsm, ndsm_exists>>
       ELSE LET out == ndsm_difference(dsm, dtm, -9999)
            IN  /\ ndsm_exists' = TRUE
                /\ \/ pc' = "ndsm_written" /\ ndsm' = out
                   \/ /\ ShapeOf(out) # ShapeOf(dsm.data)
                      /\ pc' = "ValueError"
                      /\ UNCHANGED ndsm
    /\ UNCHANGED <<labels, treetop_coords, transform, results, label_reads>>
    /\ UNCHANGED <<cfg, df, csv_written, stats>>
    /\ UNCHANGED <<pmVars, wsVars, fdVars, ioVars, exVars, netVars, permVars>>

NextNdsm == ComputeNdsm

SpecNdsm == InitNdsm /\ [][NextNdsm]_vars

\* C18: when the surface grid and the ground grid differ in shape or in
\* coordinate reference, compute_ndsm ends in an error and no nDSM output
\* exists
C18_FailsWhenNotCoRegistered ==
    (ShapeOf(dsm.data) # ShapeOf(dtm.data) \/ dsm.crs # dtm.crs) =>
        /\ pc # "ndsm_written"
        /\ ~ ndsm_exists

----------------------------------------------------------------------------
(* detect_tree_tops (modules/tree_tops.py)                                 *)
(*                                                                         *)
(* The raster behind ndsm_file is src_raster, the arguments are            *)
(* seg_params, smoothed_ndsm is ndsm, tree_tops_mask is ws_mask,           *)
(* labeled_treetops is labels, tree_top_coords is treetop_coords and the   *)
(* returned utm_tree_data is treetops.  Heights are integers; a smoothed   *)
(* surface carries the factor GaussScale(sigma), as above.                 *)

\* mode="reflect" (d c b a | a b c d | d c b a): the index read for i
Reflect(i, n) ==
    LET m == i % (2 * n)
    IN  IF m < n THEN m ELSE 2 * n - 1 - m

RECURSIVE ReflectTapSum(_, _, _, _)
\* sum over the offsets d .. radius of tap(|d|) * line[i + d], edges reflected
ReflectTapSum(line, taps, i, d) ==
    IF d > Len(taps) - 1 THEN 0
    ELSE taps[(IF d < 0 THEN 0 - d ELSE d) + 1] * line[Reflect(i - 1 + d, Len(line)) + 1]
         + ReflectTapSum(line, taps, i, d + 1)

\* scipy.ndimage.gaussian_filter(img, sigma): one pass along each axis with
\* the default mode="reflect"; an axis with sigma 0 is left as it is
gaussian_filter(img, sigma) ==
    LET taps == GaussTaps(sigma)
        pass(line) == [i \in 1 .. Len(line) |->
                          ReflectTapSum(line, taps, i, 1 - Len(taps))]
        rows == [r \in 1 .. Height(img) |-> pass(img[r])]
        column(c) == [r \in 1 .. Height(img) |-> rows[r][c]]
    IN  [r \in 1 .. Height(img) |->
            [c \in 1 .. Width(img) |-> pass(column(c))[r]]]

\* scipy.ndimage.maximum_filter(img, size=size) at (r, c): the window runs
\* from -(size // 2) to size - 1 - size // 2 on each axis, edges reflected
maximum_filter_size(img, r, c, size) ==
    LET offs == (0 - size \div 2) .. (size - 1 - size \div 2)
        around == {Cell(img, Reflect(r + dr, Height(img)), Reflect(c + dc, Width(img))) :
                        dr \in offs, dc \in offs}
    IN  CHOOSE m \in around : \A v \in around : v <= m

\* local_max & (smoothed_ndsm > min_height_threshold)
tree_tops_mask(smoothed, scale, size, min_height_threshold) ==
    {q \in CellsOfGrid(smoothed) :
        /\ maximum_filter_size(smoothed, q[1], q[2], size) = Cell(smoothed, q[1], q[2])
        /\ Cell(smoothed, q[1], q[2]) > min_height_threshold * scale}

RECURSIVE BlobOf(_, _)
\* the cells of the mask connected to S through shared edges (the default
\* structure of scipy.ndimage.label)
BlobOf(mask, S) ==
    LET more == {q \in mask : \E p \in S : ChebDist(p, q) = 1 /\ (p[1] = q[1] \/ p[2] = q[2])}
    IN  IF more \subseteq S THEN S ELSE BlobOf(mask, S \cup more)

\* the first cell of a blob in raster order
FirstCell(blob) ==
    CHOOSE p \in blob : \A q \in blob : p[1] < q[1] \/ (p[1] = q[1] /\ p[2] <= q[2])

\* every blob of the mask
Blobs(mask) == {BlobOf(mask, {q}) : q \in mask}

\* scipy.ndimage.label(mask)[0]: blobs numbered from 1 in raster order of
\* their first cell, 0 elsewhere
label(img, mask) ==
    LET first(q) == FirstCell(BlobOf(mask, {q}))
        before(q) == {b \in Blobs(mask) :
                        LET f == FirstCell(b)
                        IN  f[1] < first(q)[1] \/ (f[1] = first(q)[1] /\ f[2] < first(q)[2])}
    IN  [r \in 1 .. Height(img) |->
            [c \in 1 .. Width(img) |->
                IF <<r - 1, c - 1>> \in mask
                THEN 1 + Cardinality(before(<<r - 1, c - 1>>))
                ELSE 0]]

\* num_features of scipy.ndimage.label
num_features(lab) ==
    Cardinality({Cell(lab, q[1], q[2]) : q \in CellsOfGrid(lab)} \ {0})

\* np.column_stack(np.where(labeled_treetops > 0)): every labelled cell,
\* in raster order
tree_top_cells(lab) ==
    SortPixels({q \in CellsOfGrid(lab) : Cell(lab, q[1], q[2]) > 0})

\* [(x, y, height) ...]: local_to_utm of every cell with smoothed_ndsm there
utm_tree_data(coords, smoothed, t) ==
    [k \in 1 .. Len(coords) |->
        <<local_to_utm(coords, t)[k][1], local_to_utm(coords, t)[k][2],
          Cell(smoothed, coords[k][1], coords[k][2])>>]

\* smoothed_ndsm[smoothed_ndsm > 0]
valid_ndsm(smoothed) ==
    {q \in CellsOfGrid(smoothed) : Cell(smoothed, q[1], q[2]) > 0}

\* height rasters behind ndsm_file; heights up to 3 keep a twice-smoothed
\* cell below 2^31
TopsRasters ==
    {<<(<<0, 0, 0>>)>>,
     <<(<<0, 3, 0>>)>>,
     <<(<<0, 1, 0>>)>>,
     <<(<<3, 3>>)>>,
     <<(<<3, 0, 3>>)>>,
     <<(<<-1, -1>>)>>,
     <<(<<0, 3, 0>>), (<<0, 3, 0>>)>>,
     <<(<<3, 0>>), (<<0, 3>>)>>,
     <<(<<3, 3, 0>>), (<<0, 0, 0>>), (<<0, 2, 2>>)>>}

TopsParams ==
    [neighborhood_size : {1, 2, 3},
     min_height_threshold : {0, 2},
     sigma : WsSigmas]

InitTops ==
    /\ pc = "dt_smooth"
    /\ seg_params \in TopsParams
    /\ src_raster \in [data : TopsRasters, transform : {WsTransform}]
    /\ ws_window = <<>>
    /\ ws_mask = {}
    /\ ws_out = <<>>
    /\ stems_utm = <<>>
    /\ PointIdle
    /\ SegIdle
    /\ cfg = <<>>
    /\ ndsm_exists = TRUE
    /\ df = <<>>
    /\ csv_written = <<>>
    /\ stats = <<>>
    /\ FdIdle
    /\ IoIdle
    /\ AdaptersIdle

\* lines 53-59: gaussian_filter, maximum_filter and the height threshold
SmoothAndMask ==
    /\ pc = "dt_smooth"
    /\ LET smoothed == gaussian_filter(src_raster.data, seg_params.sigma)
       IN  /\ ndsm' = smoothed
           /\ ws_mask' = tree_tops_mask(smoothed, GaussScale(seg_params.sigma),
                                        seg_params.neighborhood_size,
                                        seg_params.min_height_threshold)
    /\ pc' = "dt_label"
    /\ UNCHANGED <<labels, treetop_coords, transform, results, label_reads>>
    /\ UNCHANGED <<pmVars, runVars, fdVars, ioVars, exVars, netVars, permVars, seg_params, src_raster, ws_window, ws_out>>

\* lines 62-65: label and the coordinates of the labelled cells
LabelTreetops ==
    /\ pc = "dt_label"
    /\ LET lab == label(ndsm, ws_mask)
       IN  /\ labels' = lab
           /\ treetop_coords' = tree_top_cells(lab)
    /\ pc' = "dt_plot"
    /\ UNCHANGED <<ndsm, transform, results, label_reads>>
    /\ UNCHANGED <<pmVars, runVars, wsVars, fdVars, ioVars, exVars, netVars, permVars>>

\* lines 68-106: the coordinates and heights, then the figure; np.min of an
\* empty valid_ndsm raises ValueError and nothing is returned
PlotAndReturn ==
    /\ pc = "dt_plot"
    /\ IF valid_ndsm(ndsm) = {}
       THEN pc' = "ValueError" /\ UNCHANGED treetops
       ELSE /\ pc' = "dt_done"
            /\ treetops' = utm_tree_data(treetop_coords, ndsm, src_raster.transform)
    /\ UNCHANGED <<stems_utm, max_distance, radius, matched_data, pixel_matches>>
    /\ UNCHANGED <<segVars, runVars, wsVars, fdVars, ioVars, exVars, netVars, permVars>>

NextTops ==
    \/ SmoothAndMask
    \/ LabelTreetops
    \/ PlotAndReturn

SpecTops == InitTops /\ [][NextTops]_vars

\* C21: detect_tree_tops returns one treetop per connected blob of the
\* candidate mask: the number of returned treetops is the number of blobs
C21_OneTreetopPerBlob ==
    pc = "dt_done" => Len(treetops) = num_features(labels)

\* C24: when no cell passes the local-maximum and minimum-height test,
\* detect_tree_tops returns an empty list and does not raise
C24_NoPeaksIsEmptyResult ==
    (pc \in {"dt_done", "ValueError"} /\ ws_mask = {}) =>
        (pc = "dt_done" /\ treetops = <<>>)

----------------------------------------------------------------------------
(* Ground lines and the stems of a plot *)

\* every plot id among the corner points and the trees
PlotIds ==
    {corner_points[i][1] : i \in 1 .. Len(corner_points)}
    \cup {trees_local[i][1] : i \in 1 .. Len(trees_local)}

\* corner point p is not above q: smaller y, or the same y and not larger x
NotAbove(p, q) == p[4] < q[4] \/ (p[4] = q[4] /\ p[3] <= q[3])

\* C22: a plot of at least two corner points has as ground line its two
\* lowest corner points (smallest y, ties by smallest x) ordered by
\* ascending x; a plot of fewer than two corner points has no ground line
\* and gets no stem; every tree of a plot whose ground line has non-zero
\* length yields exactly one stem with its plot id and stem id
C22_GroundLineIsTwoLowest ==
    pc \in {"transform_trees", "stems_done"} =>
        \A z \in PlotIds :
            LET pts == PointsOfPlot(corner_points, z)
                lines == LineOfPlot(z)
            IN  /\ Len(pts) < 2 =>
                      /\ lines = <<>>
                      /\ pc = "stems_done" =>
                            \A k \in 1 .. Len(stems_utm) : stems_utm[k][1] # z
                /\ Len(pts) >= 2 =>
                      /\ Len(lines) = 1
                      /\ \E i, j \in 1 .. Len(pts) :
                            /\ i # j
                            /\ lines[1][2] = <<pts[i][3], pts[i][4]>>
                            /\ lines[1][3] = <<pts[j][3], pts[j][4]>>
                            /\ pts[i][3] <= pts[j][3]
                            /\ \A k \in (1 .. Len(pts)) \ {i, j} :
                                  NotAbove(pts[i], pts[k]) /\ NotAbove(pts[j], pts[k])
                      /\ (pc = "stems_done" /\ lines[1][2] # lines[1][3]) =>
                            \A k \in 1 .. Len(trees_local) :
                                trees_local[k][1] = z =>
                                    Len(StemsOfTree(trees_local[k])) = 1

\* one plot with a single corner point and a tree that got no stem, another
\* with four corner points, listed highest first, and a tree that got one
C22_Witness ==
    /\ pc = "stems_done"
    /\ \E z \in PlotIds :
          /\ Len(PointsOfPlot(corner_points, z)) = 1
          /\ \E k \in 1 .. Len(trees_local) : trees_local[k][1] = z
    /\ \E z \in PlotIds :
          /\ Len(PointsOfPlot(corner_points, z)) = 4
          /\ \E k \in 1 .. Len(trees_local) :
                trees_local[k][1] = z /\ Len(StemsOfTree(trees_local[k])) = 1

\* C23: every ground line produced by find_ground_lines_improved has two
\* distinct endpoints
C23_EndpointsDistinct ==
    \A k \in 1 .. Len(ground_lines) : ground_lines[k][2] # ground_lines[k][3]

----------------------------------------------------------------------------
(* app.py: export_segmentation_as_geojson and                               *)
(* export_segmentation_as_shapefile_zip on the label grid, the transform   *)
(* and the records of segment_match_stems.  A feature is modelled by its   *)
(* properties; its polygon is the connected region it was traced from.     *)

\* rasterio.features.shapes(labels, transform): one (region, value) per
\* connected region of equal value, here as <<first cell, value>> in raster
\* order of the first cell
shapes(lab) ==
    LET same(q) == {p \in CellsOfGrid(lab) : Cell(lab, p[1], p[2]) = Cell(lab, q[1], q[2])}
        firsts == {FirstCell(BlobOf(same(q), {q})) : q \in CellsOfGrid(lab)}
        order == SortPixels(firsts)
    IN  [k \in 1 .. Len(order) |-> <<order[k], Cell(lab, order[k][1], order[k][2])>>]

\* the records with match == 1, in list order
matched_results(rs) == SelectSeq(rs, LAMBDA r : r.match = 1)

\* "float(v) if v else None": None and 0 are both falsy
FloatIfTruthy(v) == IF v = None \/ v = Some(0) THEN None ELSE v

\* the properties a feature starts with
default_properties(seg_id) ==
    [Segment_ID |-> seg_id, Parzelle |-> None, Nr |-> None, Height |-> None,
     Match |-> 0, Stem_X |-> None, Stem_Y |-> None,
     Treetop_X |-> None, Treetop_Y |-> None]

\* app.py 630-642: the first record with match == 1 updates the properties
geojson_properties(seg_id, rs) ==
    IF matched_results(rs) = <<>> THEN default_properties(seg_id)
    ELSE LET r == matched_results(rs)[1]
         IN  [Segment_ID |-> seg_id, Parzelle |-> Some(r.Parzelle), Nr |-> Some(r.Nr),
              Height |-> FloatIfTruthy(r.UAV_Tree_Height_segment),
              Match |-> r.match,
              Stem_X |-> Some(r.Stem_UTM_X), Stem_Y |-> Some(r.Stem_UTM_Y),
              Treetop_X |-> FloatIfTruthy(r.Treetop_UTM_X),
              Treetop_Y |-> FloatIfTruthy(r.Treetop_UTM_Y)]

\* the features of export_segmentation_as_geojson: background skipped
export_segmentation_as_geojson(lab, rs) ==
    LET segs == SelectSeq(shapes(lab), LAMBDA s : s[2] # 0)
    IN  [k \in 1 .. Len(segs) |-> geojson_properties(segs[k][2], rs)]

\* app.py 682-691: seg_meta[sid], the first matched record whose stem pixel
\* is inside the grid and carries label sid; <<>> when there is none
seg_meta(lab, t, rs, sid) ==
    SelectSeq(matched_results(rs), LAMBDA r :
        LET px == rowcol(t, r.Stem_UTM_X, r.Stem_UTM_Y)
        IN  /\ InBounds(px[1], px[2], lab)
            /\ Cell(lab, px[1], px[2]) = sid
            /\ sid > 0)

\* app.py 735-746: w.record(...) from m = seg_meta.get(sid, {})
shapefile_record(seg_id, meta) ==
    IF meta = <<>>
    THEN [Segment_ID |-> seg_id, Parzelle |-> Some(0), Nr |-> Some(0), Height |-> None,
          Match |-> 0, Stem_X |-> None, Stem_Y |-> None,
          Treetop_X |-> None, Treetop_Y |-> None]
    ELSE LET r == meta[1]
         IN  [Segment_ID |-> seg_id, Parzelle |-> Some(r.Parzelle), Nr |-> Some(r.Nr),
              Height |-> r.UAV_Tree_Height_segment,
              Match |-> r.match,
              Stem_X |-> Some(r.Stem_UTM_X), Stem_Y |-> Some(r.Stem_UTM_Y),
              Treetop_X |-> r.Treetop_UTM_X, Treetop_Y |-> r.Treetop_UTM_Y]

\* the records of export_segmentation_as_shapefile_zip
export_segmentation_as_shapefile_zip(lab, t, rs) ==
    LET segs == SelectSeq(shapes(lab), LAMBDA s : s[2] # 0)
    IN  [k \in 1 .. Len(segs) |->
            shapefile_record(segs[k][2], seg_meta(lab, t, rs, segs[k][2]))]

\* the GeoJSON download of the matched segmentation
ExportGeojson ==
    /\ pc \in {"segdone", "shp_done"}
    /\ geojson_features' = export_segmentation_as_geojson(labels, results)
    /\ pc' = IF pc = "segdone" THEN "geojson_done" ELSE "exported"
    /\ UNCHANGED shp_records
    /\ UNCHANGED <<pmVars, segVars, runVars, wsVars, fdVars, ioVars, netVars, permVars>>

\* the shapefile download of the matched segmentation
ExportShapefile ==
    /\ pc \in {"segdone", "geojson_done"}
    /\ shp_records' = export_segmentation_as_shapefile_zip(labels, transform, results)
    /\ pc' = IF pc = "segdone" THEN "shp_done" ELSE "exported"
    /\ UNCHANGED geojson_features
    /\ UNCHANGED <<pmVars, segVars, runVars, wsVars, fdVars, ioVars, netVars, permVars>>

NextExport ==
    \/ SegmentMatchStems
    \/ ExportGeojson
    \/ ExportShapefile

SpecExport == InitSeg /\ [][NextExport]_vars

\* the MATCHED records whose stem lies in segment sid
MatchedIn(sid) ==
    SelectSeq(results, LAMBDA r :
        r.match = 1 /\ LabelUnder(r.Stem_UTM_X, r.Stem_UTM_Y) = sid)

\* the attributes of a feature are those of the MATCHED record of its
\* segment, or empty when the segment has none
CarriesOwnStem(f) ==
    LET own == MatchedIn(f.Segment_ID)
    IN  IF own = <<>>
        THEN /\ f.Match = 0
             /\ f.Parzelle \in {None, Some(0)}
             /\ f.Nr \in {None, Some(0)}
             /\ f.Height = None
             /\ f.Stem_X = None /\ f.Stem_Y = None
        ELSE /\ f.Match = 1
             /\ f.Parzelle = Some(own[1].Parzelle)
             /\ f.Nr = Some(own[1].Nr)
             /\ f.Height = own[1].UAV_Tree_Height_segment
             /\ f.Stem_X = Some(own[1].Stem_UTM_X)
             /\ f.Stem_Y = Some(own[1].Stem_UTM_Y)

\* C25: in both exports every polygon of a positive segment carries the
\* attributes of the MATCHED record whose stem lies in that segment, and a
\* segment without a MATCHED stem carries no stem attributes
C25_ExportCarriesOwnStem ==
    /\ pc \in {"geojson_done", "exported"} =>
          \A k \in 1 .. Len(geojson_features) : CarriesOwnStem(geojson_features[k])
    /\ pc \in {"shp_done", "exported"} =>
          \A k \in 1 .. Len(shp_records) : CarriesOwnStem(shp_records[k])

----------------------------------------------------------------------------
(* ndsm_tools: wcs_download_dgm1.  The server's answers and a failing      *)
(* transport are drawn at every request; pixel_m is positive.              *)

\* axis_labels arguments: the default (("E", "N"), ("X", "Y")), one pair, none
WcsAxisLabels ==
    {<<>>, <<(<<"E", "N">>)>>, <<(<<"E", "N">>), (<<"X", "Y">>)>>,
     <<(<<"E", "N">>), (<<"X", "Y">>), (<<"Long", "Lat">>)>>}

\* r.status_code and r.headers.get("content-type", "")
WcsResponses ==
    [status_code : {200, 401},
     ctype : {"image/tiff", "image/tiff;application=geotiff", "application/xml", ""}]

\* "tiff" in ctype or "geotiff" in ctype
ContainsTiff(ctype) == ctype \in {"image/tiff", "image/tiff;application=geotiff"}

\* "if r.status_code == 200 and (...)"
wcs_success(r) == r.status_code = 200 /\ ContainsTiff(r.ctype)

\* a recursive call that passes include_scalesize on
FallbackKeepsScalesize(flag) == flag

\* include_scalesize=False of the recursive call
fallback_scalesize(flag) == FALSE

InitWcs ==
    /\ pc = "wcs_loop"
    /\ axis_labels \in WcsAxisLabels
    /\ include_scalesize \in BOOLEAN
    /\ axes_idx = 0
    /\ requests_log = <<>>
    /\ out_file = None
    /\ geojson_features = <<>>
    /\ shp_records = <<>>
    /\ perm_data = <<>>
    /\ perm_matches = <<>>
    /\ stems_utm = <<>>
    /\ PointIdle
    /\ SegIdle
    /\ RunIdle

\* one pass of "for axes in axis_labels": requests.get and its answer
WcsRequest ==
    /\ pc = "wcs_loop"
    /\ axes_idx < Len(axis_labels)
    /\ LET sent == [axes |-> axis_labels[axes_idx + 1], scalesize |-> include_scalesize]
       IN  \/ \E r \in WcsResponses :
                /\ requests_log' = Append(requests_log, <<sent, Some(r)>>)
                /\ IF wcs_success(r)
                   THEN /\ out_file' = Some(r.ctype)
                        /\ pc' = "wcs_returned"
                        /\ UNCHANGED axes_idx
                   ELSE /\ axes_idx' = axes_idx + 1
                        /\ UNCHANGED <<out_file, pc>>
           \/ /\ requests_log' = Append(requests_log, <<sent, None>>)
              /\ pc' = "ConnectionError"
              /\ UNCHANGED <<axes_idx, out_file>>
    /\ UNCHANGED <<axis_labels, include_scalesize>>
    /\ UNCHANGED <<pmVars, segVars, runVars, wsVars, fdVars, ioVars, exVars, permVars>>

\* "if include_scalesize: return wcs_download_dgm1(..., include_scalesize=False)"
WcsFallback ==
    /\ pc = "wcs_loop"
    /\ axes_idx = Len(axis_labels)
    /\ include_scalesize
    /\ include_scalesize' = fallback_scalesize(include_scalesize)
    /\ axes_idx' = 0
    /\ UNCHANGED <<pc, axis_labels, requests_log, out_file>>
    /\ UNCHANGED <<pmVars, segVars, runVars, wsVars, fdVars, ioVars, exVars, permVars>>

\* raise RuntimeError(last_err or "WCS download failed")
WcsRaise ==
    /\ pc = "wcs_loop"
    /\ axes_idx = Len(axis_labels)
    /\ ~ include_scalesize
    /\ pc' = "RuntimeError"
    /\ UNCHANGED <<axis_labels, include_scalesize, axes_idx, requests_log, out_file>>
    /\ UNCHANGED <<pmVars, segVars, runVars, wsVars, fdVars, ioVars, exVars, permVars>>

NextWcs ==
    \/ WcsRequest
    \/ WcsFallback
    \/ WcsRaise

\* the call runs on: nothing in it waits for anything but the answer
SpecWcs == InitWcs /\ [][NextWcs]_vars /\ WF_vars(NextWcs)

\* the call is over
WcsOver == pc \in {"wcs_returned", "RuntimeError", "ConnectionError"}

\* the answer to request k was status 200 with a TIFF content type
SuccessAt(k) ==
    /\ requests_log[k][2] # None
    /\ requests_log[k][2][1].status_code = 200
    /\ requests_log[k][2][1].ctype \in {"image/tiff", "image/tiff;application=geotiff"}

\* the answer to request k was something else
FailureAt(k) == requests_log[k][2] # None /\ ~ SuccessAt(k)

\* every request of every pass was sent and answered without success
AllAttemptsFailed ==
    /\ \A k \in 1 .. Len(requests_log) : FailureAt(k)
    /\ \/ axis_labels = <<>>
       \/ /\ Len(requests_log) \in {Len(axis_labels), 2 * Len(axis_labels)}
          /\ Len(requests_log) = Len(axis_labels) <=> ~ requests_log[1][1].scalesize

C26_Safe ==
    /\ Len(requests_log) <= 2 * Len(axis_labels)
    /\ \A k \in 1 .. Len(requests_log) :
          /\ requests_log[k][1].axes = axis_labels[((k - 1) % Len(axis_labels)) + 1]
          /\ requests_log[k][1].scalesize => k <= Len(axis_labels)
          /\ (k > Len(axis_labels)) => requests_log[1][1].scalesize
          /\ SuccessAt(k) => (k = Len(requests_log) /\ pc = "wcs_returned")
    /\ pc = "wcs_returned" => SuccessAt(Len(requests_log))
    /\ out_file # None <=> pc = "wcs_returned"
    /\ pc = "RuntimeError" <=> (WcsOver /\ AllAttemptsFailed)

\* C26: wcs_download_dgm1 always ends, after at most 2 x |axis_labels|
\* requests (each labelling once with SCALESIZE, then each once without);
\* it returns at the first answer with status 200 and a TIFF content type
\* and sends nothing after it, writes the file only for such an answer, and
\* raises RuntimeError exactly when every attempt was answered without success
C26_EndsWithinTwoPasses == [] C26_Safe /\ <> WcsOver

\* both passes ran and the last request of the second was the first success
C26_Witness ==
    /\ pc = "wcs_returned"
    /\ Len(axis_labels) = 2
    /\ Len(requests_log) = 4
    /\ out_file # None

----------------------------------------------------------------------------
(* process_unmatched_stems on the same records listed in two orders *)

\* the lists holding the records of data in some order
Reorderings(data) ==
    {[i \in 1 .. Len(data) |-> data[f[i]]] :
        f \in {g \in [1 .. Len(data) -> 1 .. Len(data)] : Injective(g)}}

\* process_unmatched_stems(reordered matched_data, treetops, radius)
ProcessReordered ==
    /\ pc = "rescued"
    /\ \E d \in Reorderings(matched_data) :
          /\ perm_data' = d
          /\ perm_matches' = process_unmatched_stems(d, treetops, radius)
    /\ pc' = "compared"
    /\ UNCHANGED <<pmVars, segVars, runVars, wsVars, fdVars, ioVars, exVars, netVars>>

NextPerm ==
    \/ MatchStemsToTreetops
    \/ ProcessUnmatchedStems
    \/ ProcessReordered

SpecPerm == InitPoint /\ [][NextPerm]_vars

\* the records of a list, as a set
RecordsOf(data) == {data[i] : i \in 1 .. Len(data)}

\* C27 as stated: the same records in another order give every stem the
\* same treetop, or leave it unmatched, in both outputs
C27_RescueOrderIndependent ==
    pc = "compared" => RecordsOf(perm_matches) = RecordsOf(pixel_matches)

\* some treetop left over by the assignment lies within the rescue radius
\* of two list entries that are still unmatched
SharedCandidate ==
    \E k, n \in 1 .. Len(matched_data) :
        /\ k # n
        /\ ~ IsMatched(matched_data[k])
        /\ ~ IsMatched(matched_data[n])
        /\ Candidates(k, UsedByAssignment) \cap Candidates(n, UsedByAssignment) # {}

\* C27 amended: when no treetop left over by the assignment lies within the
\* rescue radius of two unmatched entries, the same records in another
\* order give every stem the same treetop, or leave it unmatched, in both
\* outputs
C27_OrderIndependentWithoutSharedCandidate ==
    (pc = "compared" /\ ~ SharedCandidate) =>
        RecordsOf(perm_matches) = RecordsOf(pixel_matches)

\* two unmatched stems listed in the other order, each rescued with its own
\* treetop
C27_Witness ==
    /\ pc = "compared"
    /\ ~ SharedCandidate
    /\ \E k, n \in 1 .. Len(matched_data) :
          /\ k < n
          /\ ~ IsMatched(matched_data[k]) /\ IsMatched(pixel_matches[k])
          /\ ~ IsMatched(matched_data[n]) /\ IsMatched(pixel_matches[n])
          /\ \E a, b \in 1 .. Len(perm_data) :
                a > b /\ perm_data[a] = matched_data[k] /\ perm_data[b] = matched_data[n]

----------------------------------------------------------------------------
(* The counts of a run *)

\* C28: in the stats of run_everything, pixel_matched + pixel_unmatched is
\* stems_total, and with segmentation enabled seg_matched + seg_unmatched +
\* seg_no_segment is stems_total
C28_CountsAddUpToStems ==
    pc = "returned" =>
        /\ stats.pixel_matched + stats.pixel_unmatched = stats.stems_total
        /\ cfg.use_segmentation =>
              stats.seg_matched + stats.seg_unmatched + stats.seg_no_segment
                  = stats.stems_total

\* the segmentation fields of a record are filled exactly when match = 1
SegFieldsFollowMatch(r) ==
    /\ r.match \in {0, 1, 2}
    /\ r.match = 1 =>
          /\ r.UAV_Tree_Height_segment # None
          /\ r.Treetop_UTM_X # None
          /\ r.Treetop_UTM_Y # None
    /\ r.match # 1 =>
          /\ r.UAV_Tree_Height_segment = None
          /\ r.Treetop_UTM_X = None
          /\ r.Treetop_UTM_Y = None

\* C29: in every record of segment_match_stems and every row of the final
\* table the segmentation height and both treetop coordinates are non-null
\* exactly when match = 1 and null when match is 0 or 2; the point-match
\* height is never copied into these fields
C29_SegFieldsNullUnlessMatched ==
    /\ pc \in {"segdone", "table", "returned"} =>
          \A k \in 1 .. Len(results) : SegFieldsFollowMatch(results[k])
    /\ pc \in {"table", "returned"} =>
          \A k \in 1 .. Len(df) :
              /\ SegFieldsFollowMatch(df[k])
              /\ \E n \in 1 .. Len(results) :
                    /\ RecStem(results[n]) = RecStem(df[k])
                    /\ results[n].UAV_Tree_Height_segment = df[k].UAV_Tree_Height_segment
                    /\ results[n].Treetop_UTM_X = df[k].Treetop_UTM_X
                    /\ results[n].Treetop_UTM_Y = df[k].Treetop_UTM_Y
                    /\ results[n].match = df[k].match

\* a returned table of a segmented run with a row of match 1 and a row of
\* match 0 or 2 that has a point-match height and no segmentation height
C29_Witness ==
    /\ pc = "returned"
    /\ cfg.use_segmentation
    /\ \E k \in 1 .. Len(df) : df[k].match = 1
    /\ \E k \in 1 .. Len(df) :
          /\ df[k].match # 1
          /\ df[k].UAV_Tree_Height_pixel # None
          /\ df[k].UAV_Tree_Height_segment = None

----------------------------------------------------------------------------
(* The sub-window of segment_trees_arrays on rasters of every small shape, *)
(* pixel sizes 1 to 3 on either axis and subset sizes in whole metres      *)

\* rasters of 1 x 1 to 4 x 5 cells; the heights play no part in the window
WindowRasters ==
    {[r \in 1 .. hh |-> [c \in 1 .. ww |-> 1]] : hh \in 1 .. 4, ww \in 1 .. 5}

WindowTransforms ==
    [a : {1, 2, 3}, e : {-1, -3}, c : {0}, f : {12}]

\* subset_size_meters
WindowSizes == 1 .. 9

InitWindow ==
    /\ pc = "window"
    /\ seg_params \in [window : {TRUE} \X WindowSizes]
    /\ src_raster \in [data : WindowRasters, transform : WindowTransforms]
    /\ ws_window = <<>>
    /\ ws_mask = {}
    /\ ws_out = <<>>
    /\ stems_utm = <<>>
    /\ PointIdle
    /\ SegIdle
    /\ cfg = <<>>
    /\ ndsm_exists = TRUE
    /\ df = <<>>
    /\ csv_written = <<>>
    /\ stats = <<>>
    /\ FdIdle
    /\ IoIdle
    /\ AdaptersIdle

\* src.read(1, window=window) reads the part of the window on the raster
crop_window(full, win) ==
    [start_y |-> Min2(Max2(0, win.start_y), Height(full)),
     end_y |-> Min2(Max2(Max2(0, win.start_y), win.end_y), Height(full)),
     start_x |-> Min2(Max2(0, win.start_x), Width(full)),
     end_x |-> Min2(Max2(Max2(0, win.start_x), win.end_x), Width(full))]

\* pipeline.py 251-266: the window, the read and the window's transform
ReadSubset ==
    /\ pc = "window"
    /\ LET win == subset_window(src_raster.data, src_raster.transform,
                                seg_params.window[2])
       IN  /\ ws_window' = win
           /\ ndsm' = read_window(src_raster.data, crop_window(src_raster.data, win))
           /\ transform' = window_transform(src_raster.transform, win)
    /\ pc' = "window_read"
    /\ UNCHANGED <<labels, treetop_coords, results, label_reads>>
    /\ UNCHANGED <<pmVars, runVars, fdVars, ioVars, exVars, netVars, permVars, seg_params, src_raster, ws_mask, ws_out>>

NextWindow == ReadSubset

SpecWindow == InitWindow /\ [][NextWindow]_vars

\* |transform[0]| and |transform[4]|
PixelWidth == IF src_raster.transform.a < 0 THEN 0 - src_raster.transform.a ELSE src_raster.transform.a

PixelHeight == IF src_raster.transform.e < 0 THEN 0 - src_raster.transform.e ELSE src_raster.transform.e

\* n pixels of size px are no more than the requested size in pixels,
\* rounded to the nearest whole pixel and at least one
WithinRequested(n, px) == n = 1 \/ 2 * px * n <= 2 * seg_params.window[2] + px

\* C30: with use_subset the sub-window lies inside the raster on both axes
\* (0 <= start < end <= size), so it is non-empty, and is no larger than
\* the requested subset size in pixels, also when the requested subset is
\* larger than the raster
C30_WindowInsideRaster ==
    pc = "window_read" =>
        /\ 0 <= ws_window.start_x /\ ws_window.start_x < ws_window.end_x
        /\ ws_window.end_x <= Width(src_raster.data)
        /\ 0 <= ws_window.start_y /\ ws_window.start_y < ws_window.end_y
        /\ ws_window.end_y <= Height(src_raster.data)
        /\ WithinRequested(ws_window.end_x - ws_window.start_x, PixelWidth)
        /\ WithinRequested(ws_window.end_y - ws_window.start_y, PixelHeight)
        /\ Height(ndsm) = ws_window.end_y - ws_window.start_y
        /\ Width(ndsm) = ws_window.end_x - ws_window.start_x

\* a subset wider and higher than the raster was asked for and the whole
\* raster was read
C30_Witness ==
    /\ pc = "window_read"
    /\ seg_params.window[2] > PixelWidth * Width(src_raster.data)
    /\ seg_params.window[2] > PixelHeight * Height(src_raster.data)
    /\ Height(src_raster.data) > 1
    /\ ws_window = full_window(src_raster.data)

====
